---- MODULE Spec2Model ----
(***************************************************************************)
(* Orchestration of train_models_with_different_fluorescence_data_splits:  *)
(* task setup, checkpoint discovery, the seed loop with its reuse/train    *)
(* decision, metric bookkeeping and the JSON summary.                      *)
(*                                                                         *)
(* Python strings are sequences of one-character strings, so that          *)
(* startswith, "in", split, join and slicing are computed as Python        *)
(* computes them.  Metric values are floats with five decimals: a finite   *)
(* value is an integer count of 1e-5 units, next to inf, -inf and nan.     *)
(***************************************************************************)
EXTENDS Integers, Sequences, FiniteSets, TLC

\* ------------------------------------------------------------------ bounds
MaxFiles == 2
MaxVersion == 10
MaxEpoch == 1
MaxMetricSteps == 1
MetricStep == 50000

\* ------------------------------------------------------- Python str helpers
Last(s) == s[Len(s)]

\* s.startswith(p)
startswith(s, p) == Len(p) <= Len(s) /\ SubSeq(s, 1, Len(p)) = p

\* sub in s
str_in(sub, s) ==
    \E i \in 1..(Len(s) - Len(sub) + 1) : SubSeq(s, i, i + Len(sub) - 1) = sub

\* s[:-n] for n > 0
drop_last(s, n) == SubSeq(s, 1, IF Len(s) > n THEN Len(s) - n ELSE 0)

\* s.find(sep): the first index at which sep occurs, 0 when it does not
str_find(s, sep) ==
    IF str_in(sep, s)
    THEN CHOOSE i \in 1..(Len(s) - Len(sep) + 1) :
            /\ SubSeq(s, i, i + Len(sep) - 1) = sep
            /\ \A j \in 1..(i - 1) : SubSeq(s, j, j + Len(sep) - 1) # sep
    ELSE 0

\* s.split(sep), sep non-empty
RECURSIVE split(_, _)
split(s, sep) ==
    LET i == str_find(s, sep)
    IN IF i = 0 THEN << s >>
       ELSE << SubSeq(s, 1, i - 1) >> \o split(SubSeq(s, i + Len(sep), Len(s)), sep)

\* sep.join(parts)
RECURSIVE join(_, _)
join(sep, parts) ==
    IF parts = << >> THEN << >>
    ELSE IF Len(parts) = 1 THEN parts[1]
    ELSE parts[1] \o sep \o join(sep, Tail(parts))

\* ------------------------------------------------------------ number format
Digits == << "0", "1", "2", "3", "4", "5", "6", "7", "8", "9" >>
IsDigit(c) == \E d \in 1..10 : Digits[d] = c
DigitVal(c) == (CHOOSE d \in 1..10 : Digits[d] = c) - 1

\* str(n) for n >= 0
RECURSIVE NatStr(_)
NatStr(n) == IF n < 10 THEN << Digits[n + 1] >>
             ELSE NatStr(n \div 10) \o << Digits[(n % 10) + 1] >>

\* "{:0wd}".format(n) for n >= 0
ZeroPad(n, w) ==
    LET d == NatStr(n)
    IN IF Len(d) >= w THEN d ELSE [i \in 1..(w - Len(d)) |-> "0"] \o d

\* int(digits), digits a sequence of decimal digits
RECURSIVE NatVal(_)
NatVal(d) == IF d = << >> THEN 0
             ELSE 10 * NatVal(SubSeq(d, 1, Len(d) - 1)) + DigitVal(d[Len(d)])

\* ------------------------------------------------------------------ floats
Num(v) == [kind |-> "num", v |-> v]
PosInf == [kind |-> "inf", v |-> 1]
NegInf == [kind |-> "inf", v |-> -1]
NaN == [kind |-> "nan", v |-> 0]

\* a < b on Python floats: every comparison with nan is False
FloatLt(a, b) ==
    IF a.kind = "nan" \/ b.kind = "nan" THEN FALSE
    ELSE IF a.kind = "inf" THEN a.v = -1 /\ b # NegInf
    ELSE IF b.kind = "inf" THEN b.v = 1
    ELSE a.v < b.v

\* "{:.5f}".format(x)
FormatFixed5(x) ==
    IF x.kind = "nan" THEN <<"n", "a", "n">>
    ELSE IF x.kind = "inf" THEN (IF x.v < 0 THEN <<"-", "i", "n", "f">> ELSE <<"i", "n", "f">>)
    ELSE LET a == IF x.v < 0 THEN 0 - x.v ELSE x.v
         IN (IF x.v < 0 THEN <<"-">> ELSE << >>)
            \o NatStr(a \div 100000) \o <<".">> \o ZeroPad(a % 100000, 5)

\* float(text): [ok |-> FALSE] stands for the ValueError Python raises.
\* Fractions keep five decimals (the width the checkpoint names are written with).
PyFloat(text) ==
    LET signed == text # << >> /\ text[1] \in {"-", "+"}
        neg == text # << >> /\ text[1] = "-"
        body == IF signed THEN Tail(text) ELSE text
        dot == str_find(body, <<".">>)
        intd == IF dot = 0 THEN body ELSE SubSeq(body, 1, dot - 1)
        fracd == IF dot = 0 THEN << >> ELSE SubSeq(body, dot + 1, Len(body))
        frac5 == [i \in 1..5 |-> IF i <= Len(fracd) THEN fracd[i] ELSE "0"]
        mag == NatVal(intd) * 100000 + NatVal(frac5)
    IN IF body \in {<<"i", "n", "f">>, <<"i", "n", "f", "i", "n", "i", "t", "y">>}
       THEN [ok |-> TRUE, val |-> IF neg THEN NegInf ELSE PosInf]
       ELSE IF body = <<"n", "a", "n">> THEN [ok |-> TRUE, val |-> NaN]
       ELSE IF /\ Len(intd) + Len(fracd) >= 1
               /\ \A i \in 1..Len(intd) : IsDigit(intd[i])
               /\ \A i \in 1..Len(fracd) : IsDigit(fracd[i])
       THEN [ok |-> TRUE, val |-> Num(IF neg THEN 0 - mag ELSE mag)]
       ELSE [ok |-> FALSE, val |-> NaN]

\* --------------------------------------------------- checkpoint file names
\* What ModelCheckpoint writes for filename "best-{epoch:02d}-{<metric>:.5f}":
\* the metric names are inserted before the values, and a name that exists
\* already gets the version suffix -v1, -v2, ...
CheckpointFileName(epoch, metric_to_monitor, value, version) ==
    <<"b", "e", "s", "t", "-", "e", "p", "o", "c", "h", "=">> \o ZeroPad(epoch, 2) \o <<"-">> \o metric_to_monitor \o <<"=">>
    \o FormatFixed5(value)
    \o (IF version > 0 THEN <<"-", "v">> \o NatStr(version) ELSE << >>)
    \o <<".", "c", "k", "p", "t">>

\* val_metric of one directory entry
ParseValMetric(path) ==
    LET val_metric == drop_last(Last(split(path, <<"=">>)), Len(<<".", "c", "k", "p", "t">>))
    IN IF str_in(<<"-", "v">>, val_metric)
       THEN PyFloat(drop_last(val_metric, Len(<<"-", "v", "1">>)))
       ELSE PyFloat(val_metric)

\* the loop over the directory listing; error stands for the ValueError of float()
RECURSIVE BestModelLoop(_, _, _)
BestModelLoop(all_saved_models, minimize_metric, acc) ==
    IF all_saved_models = << >> \/ acc.error THEN acc
    ELSE LET path == Head(all_saved_models)
             val_metric == ParseValMetric(path)
             better == IF minimize_metric
                       THEN FloatLt(val_metric.val, acc.best_metric)
                       ELSE FloatLt(acc.best_metric, val_metric.val)
         IN IF ~val_metric.ok THEN [acc EXCEPT !.error = TRUE]
            ELSE BestModelLoop(Tail(all_saved_models), minimize_metric,
                    IF better
                    THEN [error |-> FALSE, best_metric |-> val_metric.val,
                          best_model_path |-> path]
                    ELSE acc)

\* best pre-trained model of the finetuning phase
FindBestPretrainedModel(all_saved_models, pretrain_metric_direction_which_is_optimal) ==
    LET minimize_metric == pretrain_metric_direction_which_is_optimal = <<"m", "i", "n">>
    IN BestModelLoop(all_saved_models, minimize_metric,
          [error |-> FALSE,
           best_metric |-> IF minimize_metric THEN PosInf ELSE NegInf,
           best_model_path |-> << >>])

\* best existing model of the reuse path
FindBestExistingModel(all_saved_models, metric_direction_which_is_optimal) ==
    LET minimize_metric == metric_direction_which_is_optimal = <<"m", "i", "n">>
    IN BestModelLoop(all_saved_models, minimize_metric,
          [error |-> FALSE,
           best_metric |-> IF minimize_metric THEN PosInf ELSE NegInf,
           best_model_path |-> << >>])

VARIABLES
    workload,            \* "single": one invocation; "repeated" and "resumed":
                         \* invocations on one directory tree
    run,                 \* invocations of the script started so far
    args,                \* the parsed command line
    args_extra,          \* keys added to vars(args) by summary = vars(args)
    finetune,            \* the finetune parameter of the running train_model call
    pc,                  \* position in the script
    error,               \* the exception that halted the run, "" when none
    saved_models,        \* <root_dir>/saved_models: name -> checkpoints dir and done.txt
    summaries,           \* <root_dir>/summaries: file name -> dumped summary
    tasks, pretrain_tasks,
    pretrained_checkpoint,
    hp,                  \* the training parameters chosen at "setup training parameters"
    num_models_to_train, name_format,
    dataloaders, all_dataloaders,
    seed, name, check,
    fit,                 \* state of the training call of the seed in hand
    loaded_from,         \* where the weights of the current model were loaded from
    requires_grad,       \* requires_grad of the parameters of mtlpredictor.model
    all_seeds,           \* the all_seeds_* dictionaries
    concordance,         \* all_seeds_replicate_concordance_*
    metric_inputs,       \* the predictions handed to metric functions for this seed
    handled,             \* the seeds the running call has begun, in order
    training_returned,   \* model names whose training call has returned
    sel_files, sel_direction, sel_site, sel_result

fsVars == << saved_models, summaries >>
callVars == << tasks, pretrain_tasks, pretrained_checkpoint, hp, num_models_to_train,
               name_format, dataloaders, all_dataloaders >>
seedVars == << seed, name, check, fit, loaded_from, requires_grad >>
metricVars == << all_seeds, concordance, metric_inputs >>
selVars == << sel_files, sel_direction, sel_site, sel_result >>
runVars == << workload, run, args, args_extra, finetune >>

vars == << runVars, pc, error, fsVars, callVars, seedVars, metricVars, handled,
           training_returned, selVars >>

\* Python's None, and a local that was never assigned
None == << "None" >>
Unbound == << "Unbound" >>

\* a Python list: its items behind a tag, so that a list and None can be compared
PyList(items) == << "list" >> \o items
ListItems(l) == Tail(l)

EmptyDict == [k \in {} |-> 0]
DictSet(d, k, v) == (k :> v) @@ d

\* ------------------------------------------------------------ command line
MaxSeeds == 2
MaxRuns == 2
MaxFitEpochs == 1

Strategies ==
    { <<"j", "o", "i", "n", "t">>, <<"p", "r", "e", "t", "r", "a", "i", "n", "+", "f", "i", "n", "e", "t", "u", "n", "e">>, <<"p", "r", "e", "t", "r", "a", "i", "n", "+", "l", "i", "n", "e", "a", "r", "_", "p", "r", "o", "b", "i", "n", "g">>,
      <<"p", "r", "e", "t", "r", "a", "i", "n", "+", "s", "i", "m", "p", "l", "e", "_", "r", "e", "g", "r", "e", "s", "s", "i", "o", "n">>, <<"s", "i", "n", "g", "l", "e", "_", "t", "a", "s", "k">>, <<"s", "i", "n", "g", "l", "e", "_", "t", "a", "s", "k", "_", "s", "i", "m", "p", "l", "e", "_", "r", "e", "g", "r", "e", "s", "s", "i", "o", "n">> }

\* values argparse accepts as well: --modelling_strategy has no choices
OtherStrategies == { <<"p", "r", "e", "t", "r", "a", "i", "n", "+", "f", "o", "o">>, <<"s", "i", "n", "g", "l", "e", "_", "t", "a", "s", "k", "_", "f", "o", "o">>, <<"j", "o", "i", "n", "t", "l", "y">>, <<"f", "o", "o">> }

\* the default, a motif-based model and a model whose name holds "DNABERT"
ModelNames == { <<"M", "T", "L", "u", "c", "i", "f", "e", "r">>, <<"M", "o", "t", "i", "f", "B", "a", "s", "e", "d", "F", "C", "N">>, <<"D", "N", "A", "B", "E", "R", "T">> }

\* lr and weight_decay count units of 1e-5; every --pretrain_* value differs
\* from the value of the other phases
MkArgs(strategy, model, jt, pt, ft, st, n, use, suffix) ==
    [ modelling_strategy |-> strategy, model_name |-> model,
      joint_tasks |-> jt, pretrain_tasks |-> pt, finetune_tasks |-> ft,
      single_task |-> st,
      num_random_seeds |-> n, use_existing_models |-> use,
      metric_to_monitor |-> <<"v", "a", "l", "_", "F", "l", "u", "o", "r", "e", "s", "c", "e", "n", "c", "e", "_", "m", "e", "a", "n", "_", "S", "p", "e", "a", "r", "m", "a", "n", "R">>,
      metric_direction_which_is_optimal |-> <<"m", "a", "x">>,
      pretrain_metric_to_monitor |-> <<"o", "v", "e", "r", "a", "l", "l", "_", "v", "a", "l", "_", "l", "o", "s", "s">>,
      pretrain_metric_direction_which_is_optimal |-> <<"m", "i", "n">>,
      lr |-> 1, pretrain_lr |-> 2,
      weight_decay |-> 10, pretrain_weight_decay |-> 20,
      batch_size |-> 96, pretrain_batch_size |-> 64,
      max_epochs |-> 50, pretrain_max_epochs |-> 10,
      train_mode |-> <<"m", "i", "n", "_", "s", "i", "z", "e">>, pretrain_train_mode |-> <<"m", "a", "x", "_", "s", "i", "z", "e", "_", "c", "y", "c", "l", "e">>,
      save_top_k |-> 1,
      optional_name_suffix |-> suffix ]

JointTaskLists == { <<"F", "l", "u", "o", "r", "e", "s", "c", "e", "n", "c", "e", "D", "a", "t", "a">>, <<"R", "N", "A", "S", "e", "q", ",", "F", "l", "u", "o", "r", "e", "s", "c", "e", "n", "c", "e", "D", "a", "t", "a">> }
PretrainTaskLists == { <<"L", "L", "1", "0", "0">>, <<"F", "l", "u", "o", "r", "e", "s", "c", "e", "n", "c", "e", "D", "a", "t", "a", "_", "c", "l", "a", "s", "s", "i", "f", "i", "c", "a", "t", "i", "o", "n">> }
FinetuneTaskLists == { <<"F", "l", "u", "o", "r", "e", "s", "c", "e", "n", "c", "e", "D", "a", "t", "a">>, <<"F", "l", "u", "o", "r", "e", "s", "c", "e", "n", "c", "e", "D", "a", "t", "a", "_", "c", "l", "a", "s", "s", "i", "f", "i", "c", "a", "t", "i", "o", "n">> }
SingleTasks ==
    { <<"F", "l", "u", "o", "r", "e", "s", "c", "e", "n", "c", "e", "D", "a", "t", "a">>, <<"F", "l", "u", "o", "r", "e", "s", "c", "e", "n", "c", "e", "D", "a", "t", "a", "_", "J", "U", "R", "K", "A", "T">>, <<"M", "a", "l", "i", "n", "o", "i", "s", "_", "M", "P", "R", "A">>, <<"a", "l", "l", "_", "t", "a", "s", "k", "s">> }

\* the task arguments that go with a strategy value; the others stay None
TaskArgs(strategy) ==
    IF startswith(strategy, <<"j", "o", "i", "n", "t">>)
    THEN { << jt, None, None, None >> : jt \in JointTaskLists \cup {None} }
    ELSE IF startswith(strategy, <<"p", "r", "e", "t", "r", "a", "i", "n">>)
    THEN { << None, pt, ft, None >> :
              pt \in PretrainTaskLists \cup {None}, ft \in FinetuneTaskLists \cup {None} }
    ELSE IF startswith(strategy, <<"s", "i", "n", "g", "l", "e", "_", "t", "a", "s", "k">>)
    THEN { << None, None, None, st >> : st \in SingleTasks \cup {None} }
    ELSE { << jt, None, None, None >> : jt \in {<<"F", "l", "u", "o", "r", "e", "s", "c", "e", "n", "c", "e", "D", "a", "t", "a">>, None} }

\* the command lines of a single invocation
SingleArgs ==
    UNION { { MkArgs(strategy, model, t[1], t[2], t[3], t[4], n, use, suffix) :
                t \in TaskArgs(strategy), model \in ModelNames, n \in 0..MaxSeeds,
                use \in BOOLEAN, suffix \in {None, <<"x">>} } :
            strategy \in Strategies \cup OtherStrategies }

\* the command lines of invocations repeated on one directory tree; the first
\* one finds an empty tree, where --use_existing_models makes no difference
RepeatedArgs ==
    { MkArgs(<<"j", "o", "i", "n", "t">>, <<"M", "T", "L", "u", "c", "i", "f", "e", "r">>, <<"F", "l", "u", "o", "r", "e", "s", "c", "e", "n", "c", "e", "D", "a", "t", "a">>, None, None, None, 2, FALSE,
             None),
      MkArgs(<<"p", "r", "e", "t", "r", "a", "i", "n", "+", "s", "i", "m", "p", "l", "e", "_", "r", "e", "g", "r", "e", "s", "s", "i", "o", "n">>, <<"M", "T", "L", "u", "c", "i", "f", "e", "r">>, None, <<"L", "L", "1", "0", "0">>,
             <<"F", "l", "u", "o", "r", "e", "s", "c", "e", "n", "c", "e", "D", "a", "t", "a", "_", "c", "l", "a", "s", "s", "i", "f", "i", "c", "a", "t", "i", "o", "n">>, None, 1, FALSE, None),
      MkArgs(<<"s", "i", "n", "g", "l", "e", "_", "t", "a", "s", "k", "_", "s", "i", "m", "p", "l", "e", "_", "r", "e", "g", "r", "e", "s", "s", "i", "o", "n">>, <<"M", "T", "L", "u", "c", "i", "f", "e", "r">>, None, None, None,
             <<"M", "a", "l", "i", "n", "o", "i", "s", "_", "M", "P", "R", "A">>, 1, FALSE, None) }

\* the command lines of a model that is trained, trained again and then reused
ResumedArgs ==
    { MkArgs(<<"s", "i", "n", "g", "l", "e", "_", "t", "a", "s", "k">>, <<"M", "T", "L", "u", "c", "i", "f", "e", "r">>, None, None, None, <<"M", "a", "l", "i", "n", "o", "i", "s", "_", "M", "P", "R", "A">>, 1, FALSE,
             None) }

\* the invocations of a workload, and the command lines of its first one
RunsOf(w) == IF w = "single" THEN 1 ELSE IF w = "repeated" THEN MaxRuns ELSE MaxRuns + 1

FirstArgs(w) ==
    IF w = "single" THEN SingleArgs ELSE IF w = "repeated" THEN RepeatedArgs
    ELSE ResumedArgs

\* the same command line again, with or without --use_existing_models
Rerun(a) == { [a EXCEPT !.use_existing_models = use] : use \in BOOLEAN }

NoArgs == MkArgs(<< >>, << >>, None, None, None, None, 0, FALSE, None)

\* --------------------------------------------------------- setup task(s)
IsSimpleRegression(a, ft) ==
    \/ (a.modelling_strategy = <<"p", "r", "e", "t", "r", "a", "i", "n", "+", "s", "i", "m", "p", "l", "e", "_", "r", "e", "g", "r", "e", "s", "s", "i", "o", "n">> /\ ft)
    \/ a.modelling_strategy = <<"s", "i", "n", "g", "l", "e", "_", "t", "a", "s", "k", "_", "s", "i", "m", "p", "l", "e", "_", "r", "e", "g", "r", "e", "s", "s", "i", "o", "n">>

IsPretraining(a, ft) == str_in(<<"p", "r", "e", "t", "r", "a", "i", "n">>, a.modelling_strategy) /\ ~ft

\* variant of SetupTasksOf for C5: a pretrain strategy asserts only the task
\* list of the phase it is in
SetupTasksOf_AssertsOwnPhaseOnly(a, ft) ==
    IF a.modelling_strategy = <<"j", "o", "i", "n", "t">>
    THEN IF a.joint_tasks = None
         THEN [error |-> "AssertionError", tasks |-> << >>, pretrain_tasks |-> Unbound]
         ELSE [error |-> "", tasks |-> split(a.joint_tasks, <<",">>),
               pretrain_tasks |-> Unbound]
    ELSE IF startswith(a.modelling_strategy, <<"p", "r", "e", "t", "r", "a", "i", "n">>)
    THEN IF a.pretrain_tasks = None \/ (ft /\ a.finetune_tasks = None)
         THEN [error |-> "AssertionError", tasks |-> << >>, pretrain_tasks |-> Unbound]
         ELSE [error |-> "",
               tasks |-> IF ft THEN split(a.finetune_tasks, <<",">>)
                         ELSE split(a.pretrain_tasks, <<",">>),
               pretrain_tasks |-> split(a.pretrain_tasks, <<",">>)]
    ELSE IF startswith(a.modelling_strategy, <<"s", "i", "n", "g", "l", "e", "_", "t", "a", "s", "k">>)
    THEN IF a.single_task = None
         THEN [error |-> "AssertionError", tasks |-> << >>, pretrain_tasks |-> Unbound]
         ELSE [error |-> "", tasks |-> << a.single_task >>, pretrain_tasks |-> Unbound]
    ELSE [error |-> "ValueError", tasks |-> << >>, pretrain_tasks |-> Unbound]

\* the task lists of a call, or the exception the checks raise
SetupTasksOf(a, ft) ==
    IF a.modelling_strategy = <<"j", "o", "i", "n", "t">>
    THEN IF a.joint_tasks = None
         THEN [error |-> "AssertionError", tasks |-> << >>, pretrain_tasks |-> Unbound]
         ELSE [error |-> "", tasks |-> split(a.joint_tasks, <<",">>),
               pretrain_tasks |-> Unbound]
    ELSE IF startswith(a.modelling_strategy, <<"p", "r", "e", "t", "r", "a", "i", "n">>)
    THEN IF a.pretrain_tasks = None \/ a.finetune_tasks = None
         THEN [error |-> "AssertionError", tasks |-> << >>, pretrain_tasks |-> Unbound]
         ELSE [error |-> "",
               tasks |-> IF ft THEN split(a.finetune_tasks, <<",">>)
                         ELSE split(a.pretrain_tasks, <<",">>),
               pretrain_tasks |-> split(a.pretrain_tasks, <<",">>)]
    ELSE IF startswith(a.modelling_strategy, <<"s", "i", "n", "g", "l", "e", "_", "t", "a", "s", "k">>)
    THEN IF a.single_task = None
         THEN [error |-> "AssertionError", tasks |-> << >>, pretrain_tasks |-> Unbound]
         ELSE [error |-> "", tasks |-> << a.single_task >>, pretrain_tasks |-> Unbound]
    ELSE [error |-> "ValueError", tasks |-> << >>, pretrain_tasks |-> Unbound]

\* variant of MotifBasedTasksOk for C15: only the number of tasks is asserted
MotifBasedTasksOk_SingleTaskOnly(a, task_list) ==
    startswith(a.model_name, <<"M", "o", "t", "i", "f", "B", "a", "s", "e", "d">>) => Len(task_list) = 1

\* the two assertions on motif-based models
MotifBasedTasksOk(a, task_list) ==
    startswith(a.model_name, <<"M", "o", "t", "i", "f", "B", "a", "s", "e", "d">>) =>
        /\ Len(task_list) = 1
        /\ task_list[1] \in { <<"F", "l", "u", "o", "r", "e", "s", "c", "e", "n", "c", "e", "D", "a", "t", "a">>, <<"F", "l", "u", "o", "r", "e", "s", "c", "e", "n", "c", "e", "D", "a", "t", "a", "_", "D", "E">>, <<"M", "a", "l", "i", "n", "o", "i", "s", "_", "M", "P", "R", "A">> }

\* ---------------------------------------------------- training parameters
TrainingParameters(a, ft) ==
    IF IsPretraining(a, ft)
    THEN [ metric_to_monitor |-> a.pretrain_metric_to_monitor,
           metric_direction_which_is_optimal |->
               a.pretrain_metric_direction_which_is_optimal,
           lr |-> a.pretrain_lr, weight_decay |-> a.pretrain_weight_decay,
           batch_size |-> a.pretrain_batch_size, max_epochs |-> a.pretrain_max_epochs,
           train_mode |-> a.pretrain_train_mode ]
    ELSE [ metric_to_monitor |-> a.metric_to_monitor,
           metric_direction_which_is_optimal |-> a.metric_direction_which_is_optimal,
           lr |-> a.lr, weight_decay |-> a.weight_decay,
           batch_size |-> a.batch_size, max_epochs |-> a.max_epochs,
           train_mode |-> a.train_mode ]

\* the keyword arguments of MTL_modules.MTLPredictor(...)
MTLPredictorArgs(a, ft, h) ==
    [ batch_size |-> h.batch_size, max_epochs |-> a.max_epochs, lr |-> h.lr,
      weight_decay |-> h.weight_decay, train_mode |-> h.train_mode,
      with_motifs |-> startswith(a.model_name, <<"M", "o", "t", "i", "f", "B", "a", "s", "e", "d">>),
      use_simple_regression |->
          ~startswith(a.model_name, <<"M", "o", "t", "i", "f", "B", "a", "s", "e", "d">>) /\ IsSimpleRegression(a, ft) ]

\* the keyword arguments of ModelCheckpoint(...), EarlyStopping(...) and L.Trainer(...)
ModelCheckpointArgs(h) ==
    [ monitor |-> h.metric_to_monitor, mode |-> h.metric_direction_which_is_optimal ]

EarlyStoppingArgs(h) ==
    [ monitor |-> h.metric_to_monitor, mode |-> h.metric_direction_which_is_optimal ]

TrainerArgs(h) == [ max_epochs |-> h.max_epochs ]

\* variant of NumModelsToTrain for C10: the pretraining phase is no exception
NumModelsToTrain_EveryPhase(a, ft) == a.num_random_seeds

NumModelsToTrain(a, ft) == IF IsPretraining(a, ft) THEN 1 ELSE a.num_random_seeds

\* variant of PretrainedModelName for C22: the model name is not put in front
PretrainedModelName_WithoutModelPrefix(a, pretrain_task_list) ==
    <<"p", "r", "e", "t", "r", "a", "i", "n", "_", "o", "n", "_">> \o join(<<"+">>, pretrain_task_list)

\* "pretrain_on_..." as the finetuning phase spells the pre-trained model's name
PretrainedModelName(a, pretrain_task_list) ==
    LET base == <<"p", "r", "e", "t", "r", "a", "i", "n", "_", "o", "n", "_">> \o join(<<"+">>, pretrain_task_list)
    IN IF a.model_name # <<"M", "T", "L", "u", "c", "i", "f", "e", "r">> THEN a.model_name \o <<"_">> \o base ELSE base

\* variant of NameFormat for C16: the suffix is appended in the pretraining phase too
NameFormat_SuffixInEveryPhase(a, ft, task_list, pretrain_task_list) ==
    LET strategy == a.modelling_strategy
        on == join(<<"+">>, task_list)
        pre == join(<<"+">>, pretrain_task_list)
        f0 == IF str_in(<<"f", "i", "n", "e", "t", "u", "n", "e">>, strategy)
              THEN <<"f", "i", "n", "e", "t", "u", "n", "e", "_", "o", "n", "_">> \o on \o <<"_", "p", "r", "e", "t", "r", "a", "i", "n", "e", "d", "_", "o", "n", "_">> \o pre ELSE << >>
        f1 == IF str_in(<<"l", "i", "n", "e", "a", "r", "_", "p", "r", "o", "b", "i", "n", "g">>, strategy)
              THEN <<"l", "i", "n", "e", "a", "r", "_", "p", "r", "o", "b", "i", "n", "g", "_", "o", "n", "_">> \o on \o <<"_", "p", "r", "e", "t", "r", "a", "i", "n", "e", "d", "_", "o", "n", "_">> \o pre ELSE f0
        f2 == IF str_in(<<"s", "i", "m", "p", "l", "e", "_", "r", "e", "g", "r", "e", "s", "s", "i", "o", "n">>, strategy)
              THEN <<"s", "i", "m", "p", "l", "e", "_", "r", "e", "g", "r", "e", "s", "s", "i", "o", "n", "_", "o", "n", "_">> \o on \o <<"_", "p", "r", "e", "t", "r", "a", "i", "n", "e", "d", "_", "o", "n", "_">> \o pre ELSE f1
        base == IF str_in(<<"p", "r", "e", "t", "r", "a", "i", "n">>, strategy) /\ ft THEN f2
                ELSE IF str_in(<<"p", "r", "e", "t", "r", "a", "i", "n">>, strategy) /\ ~ft THEN <<"p", "r", "e", "t", "r", "a", "i", "n", "_", "o", "n", "_">> \o on
                ELSE IF str_in(<<"j", "o", "i", "n", "t">>, strategy) THEN <<"j", "o", "i", "n", "t", "_", "t", "r", "a", "i", "n", "_", "o", "n", "_">> \o on
                ELSE IF str_in(<<"s", "i", "n", "g", "l", "e">>, strategy)
                THEN (IF str_in(<<"s", "i", "m", "p", "l", "e", "_", "r", "e", "g", "r", "e", "s", "s", "i", "o", "n">>, strategy)
                      THEN <<"s", "i", "m", "p", "l", "e", "_", "r", "e", "g", "r", "e", "s", "s", "i", "o", "n", "_", "o", "n", "_">> \o on
                      ELSE <<"i", "n", "d", "i", "v", "i", "d", "u", "a", "l", "_", "t", "r", "a", "i", "n", "i", "n", "g", "_", "o", "n", "_">> \o on)
                ELSE << >>
        prefixed == IF a.model_name # <<"M", "T", "L", "u", "c", "i", "f", "e", "r">>
                    THEN a.model_name \o <<"_">> \o base ELSE base
    IN IF a.optional_name_suffix # None
       THEN prefixed \o <<"_">> \o a.optional_name_suffix
       ELSE prefixed

NameFormat(a, ft, task_list, pretrain_task_list) ==
    LET strategy == a.modelling_strategy
        on == join(<<"+">>, task_list)
        pre == join(<<"+">>, pretrain_task_list)
        f0 == IF str_in(<<"f", "i", "n", "e", "t", "u", "n", "e">>, strategy)
              THEN <<"f", "i", "n", "e", "t", "u", "n", "e", "_", "o", "n", "_">> \o on \o <<"_", "p", "r", "e", "t", "r", "a", "i", "n", "e", "d", "_", "o", "n", "_">> \o pre ELSE << >>
        f1 == IF str_in(<<"l", "i", "n", "e", "a", "r", "_", "p", "r", "o", "b", "i", "n", "g">>, strategy)
              THEN <<"l", "i", "n", "e", "a", "r", "_", "p", "r", "o", "b", "i", "n", "g", "_", "o", "n", "_">> \o on \o <<"_", "p", "r", "e", "t", "r", "a", "i", "n", "e", "d", "_", "o", "n", "_">> \o pre ELSE f0
        f2 == IF str_in(<<"s", "i", "m", "p", "l", "e", "_", "r", "e", "g", "r", "e", "s", "s", "i", "o", "n">>, strategy)
              THEN <<"s", "i", "m", "p", "l", "e", "_", "r", "e", "g", "r", "e", "s", "s", "i", "o", "n", "_", "o", "n", "_">> \o on \o <<"_", "p", "r", "e", "t", "r", "a", "i", "n", "e", "d", "_", "o", "n", "_">> \o pre ELSE f1
        base == IF str_in(<<"p", "r", "e", "t", "r", "a", "i", "n">>, strategy) /\ ft THEN f2
                ELSE IF str_in(<<"p", "r", "e", "t", "r", "a", "i", "n">>, strategy) /\ ~ft THEN <<"p", "r", "e", "t", "r", "a", "i", "n", "_", "o", "n", "_">> \o on
                ELSE IF str_in(<<"j", "o", "i", "n", "t">>, strategy) THEN <<"j", "o", "i", "n", "t", "_", "t", "r", "a", "i", "n", "_", "o", "n", "_">> \o on
                ELSE IF str_in(<<"s", "i", "n", "g", "l", "e">>, strategy)
                THEN (IF str_in(<<"s", "i", "m", "p", "l", "e", "_", "r", "e", "g", "r", "e", "s", "s", "i", "o", "n">>, strategy)
                      THEN <<"s", "i", "m", "p", "l", "e", "_", "r", "e", "g", "r", "e", "s", "s", "i", "o", "n", "_", "o", "n", "_">> \o on
                      ELSE <<"i", "n", "d", "i", "v", "i", "d", "u", "a", "l", "_", "t", "r", "a", "i", "n", "i", "n", "g", "_", "o", "n", "_">> \o on)
                ELSE << >>
        prefixed == IF a.model_name # <<"M", "T", "L", "u", "c", "i", "f", "e", "r">>
                    THEN a.model_name \o <<"_">> \o base ELSE base
    IN IF a.optional_name_suffix # None
       THEN (IF str_in(<<"p", "r", "e", "t", "r", "a", "i", "n">>, strategy)
             THEN (IF ft THEN prefixed \o <<"_">> \o a.optional_name_suffix ELSE prefixed)
             ELSE prefixed \o <<"_">> \o a.optional_name_suffix)
       ELSE prefixed

\* ------------------------------------------------------------ dataloaders
\* What the orchestration reads of a loader object: its class, the constructor
\* arguments it was given, and the attributes name and output_names.
CellNames == << <<"J", "U", "R", "K", "A", "T">>, <<"K", "5", "6", "2">>, <<"T", "H", "P", "1">> >>

LoaderName(cls) ==
    IF cls \in { "FluorescenceData", "FluorescenceData_with_motifs",
                 "FluorescenceData_DNABERT" } THEN <<"F", "l", "u", "o", "r", "e", "s", "c", "e", "n", "c", "e">>
    ELSE IF cls = "FluorescenceData_classification" THEN <<"F", "l", "u", "o", "r", "e", "s", "c", "e", "n", "c", "e", "_", "c", "l", "a", "s", "s", "i", "f", "i", "c", "a", "t", "i", "o", "n">>
    ELSE IF cls \in { "Malinois_MPRA", "Malinois_MPRA_with_motifs",
                      "Malinois_MPRA_DNABERT" } THEN <<"M", "a", "l", "i", "n", "o", "i", "s", "M", "P", "R", "A">>
    ELSE IF cls = "LL100" THEN <<"L", "L", "1", "0", "0">>
    ELSE IF cls = "CCLE" THEN <<"C", "C", "L", "E">>
    ELSE IF cls = "Roadmap" THEN <<"R", "o", "a", "d", "m", "a", "p">>
    ELSE IF cls = "STARRSeq" THEN <<"S", "T", "A", "R", "R", "S", "e", "q">>
    ELSE IF cls = "Sharpr_MPRA" THEN <<"S", "h", "a", "r", "p", "r", "M", "P", "R", "A">>
    ELSE IF cls = "lentiMPRA" THEN <<"l", "e", "n", "t", "i", "M", "P", "R", "A">>
    ELSE IF cls = "SuRE" THEN <<"S", "u", "R", "E">>
    ELSE <<"E", "N", "C", "O", "D", "E", "T", "F", "C", "h", "I", "P", "S", "e", "q">>

OutputNames(cls, return_specified_cells) ==
    IF startswith(LoaderName(cls), <<"F", "l", "u", "o", "r", "e", "s", "c", "e", "n", "c", "e">>)
    THEN (IF return_specified_cells = None THEN CellNames
          ELSE [i \in 1..Len(ListItems(return_specified_cells)) |->
                    CellNames[ListItems(return_specified_cells)[i] + 1]])
    ELSE IF LoaderName(cls) = <<"M", "a", "l", "i", "n", "o", "i", "s", "M", "P", "R", "A">> THEN << <<"K", "5", "6", "2">>, <<"H", "e", "p", "G", "2">>, <<"S", "K", "N", "S", "H">> >>
    ELSE << >>

Loader(cls, cache_dir, seed_arg, cells, use_construct, predict_DE) ==
    [ cls |-> cls, cache_dir |-> cache_dir, seed |-> seed_arg,
      return_specified_cells |-> cells, use_construct |-> use_construct,
      predict_DE |-> predict_DE,
      name |-> LoaderName(cls), output_names |-> OutputNames(cls, cells) ]

PlainLoader(cls, cache_dir) == Loader(cls, cache_dir, None, None, FALSE, FALSE)

\* the four-way dispatch of FluorescenceData (de = FALSE) and FluorescenceData_DE
FluorescenceDispatch(a, ft, de) ==
    IF startswith(a.model_name, <<"M", "o", "t", "i", "f", "B", "a", "s", "e", "d">>)
    THEN Loader("FluorescenceData_with_motifs",
                IF de THEN "FluorescenceData_with_motifs_DE"
                ELSE "FluorescenceData_with_motifs", None, None, FALSE, de)
    ELSE IF str_in(<<"D", "N", "A", "B", "E", "R", "T">>, a.model_name)
    THEN Loader("FluorescenceData_DNABERT",
                IF de THEN "FluorescenceData_DNABERT_DE" ELSE "FluorescenceData_DNABERT",
                None, None, FALSE, de)
    ELSE IF IsSimpleRegression(a, ft)
    THEN Loader("FluorescenceData",
                IF de THEN "FluorescenceData_DE" ELSE "FluorescenceData",
                None, None, TRUE, de)
    ELSE Loader("FluorescenceData",
                IF de THEN "FluorescenceData_DE" ELSE "FluorescenceData",
                None, None, FALSE, de)

MalinoisDispatch(a) ==
    IF startswith(a.model_name, <<"M", "o", "t", "i", "f", "B", "a", "s", "e", "d">>)
    THEN PlainLoader("Malinois_MPRA_with_motifs", "Malinois_MPRA")
    ELSE IF str_in(<<"D", "N", "A", "B", "E", "R", "T">>, a.model_name)
    THEN PlainLoader("Malinois_MPRA_DNABERT", "Malinois_MPRA")
    ELSE PlainLoader("Malinois_MPRA", "Malinois_MPRA")

SuRELoaders == [g \in 1..4 |-> PlainLoader("SuRE", "SuRE")]

\* tasks_set of a special task name: None unless the task is RNASeq under a
\* pretrain or joint strategy
SpecialTasksSet(a, task) ==
    IF startswith(a.modelling_strategy, <<"p", "r", "e", "t", "r", "a", "i", "n">>)
    THEN (IF task = <<"R", "N", "A", "S", "e", "q">> THEN << <<"L", "L", "1", "0", "0">>, <<"C", "C", "L", "E">>, <<"R", "o", "a", "d", "m", "a", "p">> >> ELSE None)
    ELSE IF a.modelling_strategy = <<"j", "o", "i", "n", "t">>
    THEN (IF task = <<"R", "N", "A", "S", "e", "q">> THEN << <<"L", "L", "1", "0", "0">>, <<"C", "C", "L", "E">>, <<"R", "o", "a", "d", "m", "a", "p">> >> ELSE None)
    ELSE None

\* dataloaders[task] of one task: a loader, a list of loaders, no entry at all
\* (a task name no branch knows), or the TypeError of iterating None
InstantiateTask(a, ft, task) ==
    IF task = <<"a", "l", "l", "_", "t", "a", "s", "k", "s">> \/ task = <<"R", "N", "A", "S", "e", "q">>
    THEN LET tasks_set == SpecialTasksSet(a, task)
         IN IF tasks_set = None THEN [kind |-> "TypeError", loaders |-> << >>]
            ELSE [kind |-> "list",
                  loaders |-> << PlainLoader("LL100", "LL-100"), PlainLoader("CCLE", "CCLE"),
                                 PlainLoader("Roadmap", "Roadmap") >>]
    ELSE IF task = <<"L", "L", "1", "0", "0">> THEN [kind |-> "one", loaders |-> << PlainLoader("LL100", "LL-100") >>]
    ELSE IF task = <<"C", "C", "L", "E">> THEN [kind |-> "one", loaders |-> << PlainLoader("CCLE", "CCLE") >>]
    ELSE IF task = <<"R", "o", "a", "d", "m", "a", "p">>
    THEN [kind |-> "one", loaders |-> << PlainLoader("Roadmap", "Roadmap") >>]
    ELSE IF task = <<"S", "T", "A", "R", "R", "S", "e", "q">>
    THEN [kind |-> "one", loaders |-> << PlainLoader("STARRSeq", "STARRSeq") >>]
    ELSE IF task = <<"S", "h", "a", "r", "p", "r", "_", "M", "P", "R", "A">>
    THEN [kind |-> "one", loaders |-> << PlainLoader("Sharpr_MPRA", "Sharpr_MPRA") >>]
    ELSE IF task = <<"l", "e", "n", "t", "i", "M", "P", "R", "A">>
    THEN [kind |-> "one", loaders |-> << PlainLoader("lentiMPRA", "lentiMPRA") >>]
    ELSE IF task = <<"S", "u", "R", "E", "_", "c", "l", "a", "s", "s", "i", "f", "i", "c", "a", "t", "i", "o", "n">> \/ task = <<"S", "u", "R", "E", "_", "r", "e", "g", "r", "e", "s", "s", "i", "o", "n">>
    THEN [kind |-> "list", loaders |-> SuRELoaders]
    ELSE IF task = <<"E", "N", "C", "O", "D", "E", "T", "F", "C", "h", "I", "P", "S", "e", "q">>
    THEN [kind |-> "one", loaders |-> << PlainLoader("ENCODETFChIPSeq", "ENCODETFChIPSeq") >>]
    ELSE IF task = <<"F", "l", "u", "o", "r", "e", "s", "c", "e", "n", "c", "e", "D", "a", "t", "a">>
    THEN [kind |-> "one", loaders |-> << FluorescenceDispatch(a, ft, FALSE) >>]
    ELSE IF task = <<"F", "l", "u", "o", "r", "e", "s", "c", "e", "n", "c", "e", "D", "a", "t", "a", "_", "D", "E">>
    THEN [kind |-> "one", loaders |-> << FluorescenceDispatch(a, ft, TRUE) >>]
    ELSE IF task = <<"F", "l", "u", "o", "r", "e", "s", "c", "e", "n", "c", "e", "D", "a", "t", "a", "_", "c", "l", "a", "s", "s", "i", "f", "i", "c", "a", "t", "i", "o", "n">>
    THEN [kind |-> "one",
          loaders |-> << PlainLoader("FluorescenceData_classification",
                                     "FluorescenceData_classification") >>]
    ELSE IF task = <<"F", "l", "u", "o", "r", "e", "s", "c", "e", "n", "c", "e", "D", "a", "t", "a", "_", "J", "U", "R", "K", "A", "T">>
    THEN [kind |-> "one",
          loaders |-> << Loader("FluorescenceData", "FluorescenceData", None, PyList(<< 0 >>),
                                FALSE, FALSE) >>]
    ELSE IF task = <<"F", "l", "u", "o", "r", "e", "s", "c", "e", "n", "c", "e", "D", "a", "t", "a", "_", "K", "5", "6", "2">>
    THEN [kind |-> "one",
          loaders |-> << Loader("FluorescenceData", "FluorescenceData", None, PyList(<< 1 >>),
                                FALSE, FALSE) >>]
    ELSE IF task = <<"F", "l", "u", "o", "r", "e", "s", "c", "e", "n", "c", "e", "D", "a", "t", "a", "_", "T", "H", "P", "1">>
    THEN [kind |-> "one",
          loaders |-> << Loader("FluorescenceData", "FluorescenceData", None, PyList(<< 2 >>),
                                FALSE, FALSE) >>]
    ELSE IF task = <<"M", "a", "l", "i", "n", "o", "i", "s", "_", "M", "P", "R", "A">>
    THEN [kind |-> "one", loaders |-> << MalinoisDispatch(a) >>]
    ELSE [kind |-> "missing", loaders |-> << >>]

\* the dictionary dataloaders after the loop over tasks, or its TypeError
RECURSIVE InstantiateAll(_, _, _, _)
InstantiateAll(a, ft, task_list, acc) ==
    IF task_list = << >> \/ acc.error # "" THEN acc
    ELSE LET task == Head(task_list)
             made == InstantiateTask(a, ft, task)
         IN IF made.kind = "TypeError" THEN [acc EXCEPT !.error = "TypeError"]
            ELSE InstantiateAll(a, ft, Tail(task_list),
                    IF made.kind = "missing" THEN acc
                    ELSE [acc EXCEPT !.dataloaders = DictSet(acc.dataloaders, task, made)])

\* all_dataloaders: the loaders of all tasks in task order; a task without an
\* entry in dataloaders raises KeyError
RECURSIVE FlattenDataloaders(_, _)
FlattenDataloaders(task_list, dls) ==
    IF task_list = << >> THEN [error |-> "", loaders |-> << >>]
    ELSE IF Head(task_list) \notin DOMAIN dls THEN [error |-> "KeyError", loaders |-> << >>]
    ELSE LET rest == FlattenDataloaders(Tail(task_list), dls)
         IN IF rest.error # "" THEN rest
            ELSE [error |-> "", loaders |-> dls[Head(task_list)].loaders \o rest.loaders]

\* ------------------------------------------------------------- file system
\* unfinished are the files of the directory that a training call which has
\* not run to completion (done.txt not reached) wrote
NoModel == [dir |-> FALSE, files |-> {}, done |-> FALSE, unfinished |-> {}]

\* the entry of saved_models/<model_name>/default
Entry(models, model_name) ==
    IF model_name \in DOMAIN models THEN models[model_name] ELSE NoModel

\* a summary file that open(..., "w") has created or truncated and json.dump
\* has not written
EmptyFile == [written |-> "none", args |-> None, entries |-> EmptyDict]

\* the summary file when the process is killed inside json.dump: a part of the
\* text is in the file, which is no JSON document
PartlyWrittenFile == [written |-> "part", args |-> None, entries |-> EmptyDict]

\* the summary file after json.dump and the end of the with block
DumpedFile(summary_args, summary) ==
    [written |-> "all", args |-> summary_args, entries |-> summary]

\* the orders in which os.listdir may return the files of a directory
ListDir(files) ==
    { l \in [1..Cardinality(files) -> files] :
        \A i, j \in 1..Cardinality(files) : i # j => l[i] # l[j] }

\* --------------------------------------------------------------- the script
\* no state dict was loaded
NoCheckpoint == [model |-> None, path |-> None]
NoFit == [epoch |-> 0, best_value |-> NaN, best_path |-> None, stopped |-> FALSE,
          call |-> "none", trained |-> FALSE]
NoHp ==
    [metric_to_monitor |-> << >>, metric_direction_which_is_optimal |-> << >>,
     lr |-> 0, weight_decay |-> 0, batch_size |-> 0, max_epochs |-> 0,
     train_mode |-> << >>]

CallReset ==
    /\ tasks' = << >>
    /\ pretrain_tasks' = Unbound
    /\ pretrained_checkpoint' = NoCheckpoint
    /\ hp' = NoHp
    /\ num_models_to_train' = 0
    /\ name_format' = << >>
    /\ dataloaders' = EmptyDict
    /\ all_dataloaders' = << >>
    /\ seed' = 0
    /\ name' = << >>
    /\ check' = FALSE
    /\ fit' = NoFit
    /\ loaded_from' = NoCheckpoint
    /\ requires_grad' = EmptyDict
    /\ all_seeds' = EmptyDict
    /\ concordance' = EmptyDict
    /\ metric_inputs' = {}
    /\ handled' = << >>

\* variant of Halt for C13: the exception is caught and the seed loop goes on
Halt_CaughtAndSkipped(exception) == pc' = "seed_loop" /\ error' = exception

Halt(exception) == pc' = "halted" /\ error' = exception

Init ==
    /\ workload \in {"single", "repeated", "resumed"}
    /\ run = 0
    /\ args = NoArgs
    /\ args_extra = EmptyDict
    /\ finetune = FALSE
    /\ pc = "shell"
    /\ error = ""
    /\ saved_models = EmptyDict
    /\ summaries = EmptyDict
    /\ tasks = << >>
    /\ pretrain_tasks = Unbound
    /\ pretrained_checkpoint = NoCheckpoint
    /\ hp = NoHp
    /\ num_models_to_train = 0
    /\ name_format = << >>
    /\ dataloaders = EmptyDict
    /\ all_dataloaders = << >>
    /\ seed = 0
    /\ name = << >>
    /\ check = FALSE
    /\ fit = NoFit
    /\ loaded_from = NoCheckpoint
    /\ requires_grad = EmptyDict
    /\ all_seeds = EmptyDict
    /\ concordance = EmptyDict
    /\ metric_inputs = {}
    /\ handled = << >>
    /\ training_returned = {}
    /\ sel_files = << >>
    /\ sel_direction = << >>
    /\ sel_site = "unused"
    /\ sel_result = [error |-> FALSE, best_metric |-> NaN, best_model_path |-> << >>]

\* variant of StartRun for C4: the module level calls the finetuning phase first
StartRun_FinetuneFirst ==
    /\ pc \in {"shell", "halted", "finished"}
    /\ run < RunsOf(workload)
    /\ args' \in (IF run = 0 THEN FirstArgs(workload) ELSE Rerun(args))
    /\ run' = run + 1
    /\ args_extra' = EmptyDict
    /\ finetune' = str_in(<<"p", "r", "e", "t", "r", "a", "i", "n">>, args'.modelling_strategy)
    /\ pc' = "setup_tasks"
    /\ error' = ""
    /\ CallReset
    /\ UNCHANGED << workload, fsVars, training_returned, selVars >>

\* the script is started: the command line is parsed and train_model is called
\* with finetune=False
StartRun ==
    /\ pc \in {"shell", "halted", "finished"}
    /\ run < RunsOf(workload)
    /\ args' \in (IF run = 0 THEN FirstArgs(workload) ELSE Rerun(args))
    /\ run' = run + 1
    /\ args_extra' = EmptyDict
    /\ finetune' = FALSE
    /\ pc' = "setup_tasks"
    /\ error' = ""
    /\ CallReset
    /\ UNCHANGED << workload, fsVars, training_returned, selVars >>

\* setup task(s) and the motif-based assertions
SetupTasks ==
    /\ pc = "setup_tasks"
    /\ LET s == SetupTasksOf(args, finetune)
       IN IF s.error # "" THEN Halt(s.error) /\ UNCHANGED << tasks, pretrain_tasks >>
          ELSE /\ tasks' = s.tasks
               /\ pretrain_tasks' = s.pretrain_tasks
               /\ IF ~MotifBasedTasksOk(args, s.tasks) THEN Halt("AssertionError")
                  ELSE /\ pc' = IF str_in(<<"p", "r", "e", "t", "r", "a", "i", "n">>, args.modelling_strategy) /\ finetune
                                THEN "load_pretrained" ELSE "setup_training"
                       /\ UNCHANGED error
    /\ UNCHANGED << runVars, fsVars, pretrained_checkpoint, hp, num_models_to_train,
                    name_format, dataloaders, all_dataloaders, seedVars, metricVars,
                    handled, training_returned, selVars >>

\* load pretrained model state dict
LoadPretrainedCheckpoint ==
    /\ pc = "load_pretrained"
    /\ IF pretrain_tasks = Unbound
       THEN Halt("UnboundLocalError") /\ UNCHANGED pretrained_checkpoint
       ELSE LET pretrained_model_name == PretrainedModelName(args, pretrain_tasks)
                e == Entry(saved_models, pretrained_model_name)
            IN IF ~e.dir
               THEN Halt("FileNotFoundError") /\ UNCHANGED pretrained_checkpoint
               ELSE \E all_saved_models \in ListDir(e.files) :
                      LET best == FindBestPretrainedModel(all_saved_models,
                                     args.pretrain_metric_direction_which_is_optimal)
                      IN IF best.error
                         THEN Halt("ValueError") /\ UNCHANGED pretrained_checkpoint
                         ELSE IF best.best_model_path \notin e.files
                         THEN Halt("IsADirectoryError") /\ UNCHANGED pretrained_checkpoint
                         ELSE /\ pretrained_checkpoint' =
                                    [model |-> pretrained_model_name,
                                     path |-> best.best_model_path]
                              /\ pc' = "setup_training"
                              /\ UNCHANGED error
    /\ UNCHANGED << runVars, fsVars, tasks, pretrain_tasks, hp, num_models_to_train,
                    name_format, dataloaders, all_dataloaders, seedVars, metricVars,
                    handled, training_returned, selVars >>

\* setup training parameters, the number of models and the model name format
SetupTraining ==
    /\ pc = "setup_training"
    /\ hp' = TrainingParameters(args, finetune)
    /\ num_models_to_train' = NumModelsToTrain(args, finetune)
    /\ name_format' = NameFormat(args, finetune, tasks, pretrain_tasks)
    /\ pc' = "instantiate"
    /\ UNCHANGED << runVars, error, fsVars, tasks, pretrain_tasks, pretrained_checkpoint,
                    dataloaders, all_dataloaders, seedVars, metricVars, handled,
                    training_returned, selVars >>

\* instantiate dataloaders
InstantiateDataloaders ==
    /\ pc = "instantiate"
    /\ LET made == InstantiateAll(args, finetune, tasks,
                                  [error |-> "", dataloaders |-> EmptyDict])
           flat == FlattenDataloaders(tasks, made.dataloaders)
       IN IF made.error # ""
          THEN Halt(made.error) /\ UNCHANGED << dataloaders, all_dataloaders >>
          ELSE /\ dataloaders' = made.dataloaders
               /\ IF flat.error # "" THEN Halt(flat.error) /\ UNCHANGED all_dataloaders
                  ELSE /\ all_dataloaders' = flat.loaders
                       /\ pc' = "seed_loop"
                       /\ UNCHANGED error
    /\ UNCHANGED << runVars, fsVars, tasks, pretrain_tasks, pretrained_checkpoint, hp,
                    num_models_to_train, name_format, seedVars, metricVars, handled,
                    training_returned, selVars >>

\* ---------------------------------------------------------------- seed loop
\* the Fluorescence loader of a seed, as the multi-seed loop builds it again
Reinstantiate(a, ft, dl, seed_arg) ==
    IF ~startswith(dl.name, <<"F", "l", "u", "o", "r", "e", "s", "c", "e", "n", "c", "e">>) THEN dl
    ELSE IF startswith(a.model_name, <<"M", "o", "t", "i", "f", "B", "a", "s", "e", "d">>)
    THEN Loader("FluorescenceData_with_motifs",
                IF dl.predict_DE THEN "FluorescenceData_with_motifs_DE"
                ELSE "FluorescenceData_with_motifs",
                seed_arg, dl.return_specified_cells, FALSE, dl.predict_DE)
    ELSE IF str_in(<<"D", "N", "A", "B", "E", "R", "T">>, a.model_name)
    THEN Loader("FluorescenceData_DNABERT",
                IF dl.predict_DE THEN "FluorescenceData_DNABERT_DE"
                ELSE "FluorescenceData_DNABERT",
                seed_arg, dl.return_specified_cells, FALSE, dl.predict_DE)
    ELSE IF IsSimpleRegression(a, ft)
    THEN Loader("FluorescenceData",
                IF dl.predict_DE THEN "FluorescenceData_DE" ELSE "FluorescenceData",
                seed_arg, dl.return_specified_cells, TRUE, dl.predict_DE)
    ELSE IF str_in(<<"c", "l", "a", "s", "s", "i", "f", "i", "c", "a", "t", "i", "o", "n">>, dl.name)
    THEN Loader("FluorescenceData_classification", "FluorescenceData_classification",
                seed_arg, dl.return_specified_cells, FALSE, dl.predict_DE)
    ELSE Loader("FluorescenceData",
                IF dl.predict_DE THEN "FluorescenceData_DE" ELSE "FluorescenceData",
                seed_arg, dl.return_specified_cells, FALSE, dl.predict_DE)

\* --- the parameters of mtlpredictor.model ---
\* named_parameters() of a freshly constructed model: names inside and outside
\* the promoter backbone
NamedParameters ==
    { <<"B", "a", "c", "k", "b", "o", "n", "e", ".", "p", "r", "o", "m", "o", "t", "e", "r", "_", "c", "o", "n", "v", ".", "w", "e", "i", "g", "h", "t">>, <<"B", "a", "c", "k", "b", "o", "n", "e", ".", "p", "r", "o", "m", "o", "t", "e", "r", "_", "f", "c", ".", "b", "i", "a", "s">>,
      <<"B", "a", "c", "k", "b", "o", "n", "e", ".", "c", "l", "s", "_", "t", "o", "k", "e", "n">>, <<"F", "l", "u", "o", "r", "e", "s", "c", "e", "n", "c", "e", ".", "h", "e", "a", "d", ".", "w", "e", "i", "g", "h", "t">>, <<"F", "l", "u", "o", "r", "e", "s", "c", "e", "n", "c", "e", ".", "h", "e", "a", "d", ".", "b", "i", "a", "s">> }

\* requires_grad after construction: one parameter outside the backbone is fixed
InitialRequiresGrad == [p \in NamedParameters |-> p # <<"F", "l", "u", "o", "r", "e", "s", "c", "e", "n", "c", "e", ".", "h", "e", "a", "d", ".", "b", "i", "a", "s">>]

\* variant of FreezeBackbone for C19: everything under "Backbone." is frozen
FreezeBackbone_AllOfBackbone(rg) ==
    [p \in DOMAIN rg |-> IF startswith(p, <<"B", "a", "c", "k", "b", "o", "n", "e", ".">>) THEN FALSE ELSE rg[p]]

\* freeze backbone for linear probing
FreezeBackbone(rg) ==
    [p \in DOMAIN rg |-> IF startswith(p, <<"B", "a", "c", "k", "b", "o", "n", "e", ".", "p", "r", "o", "m", "o", "t", "e", "r", "_">>) THEN FALSE ELSE rg[p]]

\* the model name of a seed
ModelName(format, n_models, seed_arg) ==
    IF n_models > 1 THEN format \o <<"_", "d", "l", "_", "s", "e", "e", "d", "_">> \o NatStr(seed_arg) ELSE format

\* check: an existing model is used instead of training one
CheckExisting(a, e) == a.use_existing_models /\ e.dir /\ e.done

\* one iteration of "for seed in range(num_models_to_train)" up to the decision
\* between using an existing model and training
BeginSeed ==
    /\ pc = "seed_loop"
    /\ seed < num_models_to_train
    /\ all_dataloaders' =
          IF num_models_to_train > 1
          THEN [i \in 1..Len(all_dataloaders) |->
                    Reinstantiate(args, finetune, all_dataloaders[i], seed)]
          ELSE all_dataloaders
    /\ name' = ModelName(name_format, num_models_to_train, seed)
    /\ check' = CheckExisting(args, Entry(saved_models, name'))
    /\ handled' = Append(handled, seed)
    /\ pc' = IF check' THEN "use_existing" ELSE "train"
    /\ fit' = NoFit
    /\ loaded_from' = NoCheckpoint
    /\ requires_grad' = InitialRequiresGrad
    /\ metric_inputs' = {}
    /\ UNCHANGED << runVars, error, fsVars, tasks, pretrain_tasks, pretrained_checkpoint,
                    hp, num_models_to_train, name_format, dataloaders, seed, all_seeds,
                    concordance, training_returned, selVars >>

\* mtlpredictor.fit_simple_regression(unified_cache_dir=..., cache_dir=cur_models_save_dir,
\* device=device, batch_size=batch_size, use_existing_models=True) is called with
\* the same arguments where an existing model is used and where a model is
\* trained; its body is not among the sources. Of the directory tree the model
\* keeps that the cache directory exists afterwards.
FitSimpleRegressionCache(e) == [e EXCEPT !.dir = TRUE]

\* what the call may do, TRUE for fitting a regression and FALSE for loading
\* the one of cache_dir: that is the library's choice wherever there is a
\* cache directory, --use_existing_models has no part in it
FitSimpleRegressionOutcomes(e) == IF e.dir THEN BOOLEAN ELSE {TRUE}

\* the call and its return, the same at both places of the script
FitSimpleRegressionCall ==
    LET e == Entry(saved_models, name)
    IN /\ \E trained \in FitSimpleRegressionOutcomes(e) :
            fit' = [fit EXCEPT !.call = "fit_simple_regression", !.trained = trained]
       /\ saved_models' = DictSet(saved_models, name, FitSimpleRegressionCache(e))
       /\ training_returned' = training_returned \cup {name}

\* found existing model and using it
UseExistingModel ==
    /\ pc = "use_existing"
    /\ IF IsSimpleRegression(args, finetune)
       THEN /\ FitSimpleRegressionCall
            /\ loaded_from' = [model |-> name, path |-> <<"s", "i", "m", "p", "l", "e", "_", "r", "e", "g", "r", "e", "s", "s", "i", "o", "n">>]
            /\ pc' = "metrics"
            /\ UNCHANGED error
       ELSE LET e == Entry(saved_models, name)
            IN /\ UNCHANGED << saved_models, fit, training_returned >>
               /\ \E all_saved_models \in ListDir(e.files) :
                  LET best == FindBestExistingModel(all_saved_models,
                                  hp.metric_direction_which_is_optimal)
                  IN IF best.error THEN Halt("ValueError") /\ UNCHANGED loaded_from
                     ELSE IF best.best_model_path \notin e.files
                     THEN Halt("IsADirectoryError") /\ UNCHANGED loaded_from
                     ELSE /\ loaded_from' = [model |-> name, path |-> best.best_model_path]
                          /\ pc' = "metrics"
                          /\ UNCHANGED error
    /\ UNCHANGED << runVars, summaries, callVars, seed, name, check, requires_grad,
                    metricVars, handled, selVars >>

\* variant of BeginTraining for C3: done.txt is created before the training call
BeginTraining_DoneFileFirst ==
    /\ pc = "train"
    /\ IF IsSimpleRegression(args, finetune)
       THEN /\ pc' = "fit_simple_regression"
            /\ UNCHANGED << loaded_from, requires_grad >>
       ELSE /\ loaded_from' = IF str_in(<<"p", "r", "e", "t", "r", "a", "i", "n">>, args.modelling_strategy) /\ finetune
                              THEN pretrained_checkpoint ELSE NoCheckpoint
            /\ requires_grad' = IF str_in(<<"l", "i", "n", "e", "a", "r", "_", "p", "r", "o", "b", "i", "n", "g">>, args.modelling_strategy)
                                    /\ finetune
                                 THEN FreezeBackbone(requires_grad) ELSE requires_grad
            /\ pc' = "fit"
    /\ fit' = NoFit
    /\ saved_models' = DictSet(saved_models, name,
                          [Entry(saved_models, name) EXCEPT !.done = TRUE])
    /\ UNCHANGED << runVars, error, summaries, callVars, seed, name, check, metricVars,
                    handled, training_returned, selVars >>

\* "Training model": everything up to the training call
BeginTraining ==
    /\ pc = "train"
    /\ IF IsSimpleRegression(args, finetune)
       THEN /\ pc' = "fit_simple_regression"
            /\ UNCHANGED << loaded_from, requires_grad >>
       ELSE /\ loaded_from' = IF str_in(<<"p", "r", "e", "t", "r", "a", "i", "n">>, args.modelling_strategy) /\ finetune
                              THEN pretrained_checkpoint ELSE NoCheckpoint
            /\ requires_grad' = IF str_in(<<"l", "i", "n", "e", "a", "r", "_", "p", "r", "o", "b", "i", "n", "g">>, args.modelling_strategy)
                                    /\ finetune
                                 THEN FreezeBackbone(requires_grad) ELSE requires_grad
            /\ pc' = "fit"
    /\ fit' = NoFit
    /\ UNCHANGED << runVars, error, fsVars, callVars, seed, name, check, metricVars,
                    handled, training_returned, selVars >>

\* --- trainer.fit with the ModelCheckpoint and EarlyStopping callbacks ---
\* the values the monitored metric takes: two in the repeated invocations, where
\* the checkpoints of a directory are told apart by them, one elsewhere
FitValues(w) == IF w = "repeated" THEN { Num(0), Num(MetricStep) } ELSE { Num(0) }

\* mode's comparison of ModelCheckpoint and EarlyStopping
MonitorBetter(mode, current, best) ==
    IF mode = <<"m", "i", "n">> THEN FloatLt(current, best) ELSE FloatLt(best, current)

\* the first free name among <name>, <name>-v1, <name>-v2, ...
VersionedFileName(files, epoch, metric_to_monitor, value, del_filepath) ==
    LET free(v) == LET f == CheckpointFileName(epoch, metric_to_monitor, value, v)
                   IN f \notin files \/ f = del_filepath
        ver == CHOOSE v \in 0..Cardinality(files) :
                  free(v) /\ \A w \in 0..(v - 1) : ~free(w)
    IN CheckpointFileName(epoch, metric_to_monitor, value, ver)

\* one training epoch with its validation: the monitored value is current; with
\* save_top_k=args.save_top_k at 1, its default and its value in every command
\* line here, the checkpoint is written when it is the first of this fit or
\* better than the best one, which it replaces
FitEpoch ==
    /\ pc = "fit"
    /\ args.save_top_k = 1
    /\ ~fit.stopped
    /\ fit.epoch < MaxFitEpochs
    /\ \E current \in FitValues(workload) :
         LET e == Entry(saved_models, name)
             mode == hp.metric_direction_which_is_optimal
             save == fit.best_path = None \/ MonitorBetter(mode, current, fit.best_value)
             filepath == VersionedFileName(e.files, fit.epoch, hp.metric_to_monitor,
                                           current, fit.best_path)
             kept == IF current.kind = "nan"
                     THEN (IF mode = <<"m", "i", "n">> THEN PosInf ELSE NegInf) ELSE current
         IN /\ fit' = [epoch |-> fit.epoch + 1,
                       best_value |-> IF save THEN kept ELSE fit.best_value,
                       best_path |-> IF save THEN filepath ELSE fit.best_path,
                       stopped |-> current.kind # "num",
                       call |-> "trainer.fit", trained |-> TRUE]
            /\ saved_models' =
                  IF save
                  THEN DictSet(saved_models, name,
                          [e EXCEPT !.dir = TRUE,
                                    !.files = (e.files \ {fit.best_path}) \cup {filepath},
                                    !.unfinished = (e.unfinished \ {fit.best_path})
                                                   \cup {filepath}])
                  ELSE saved_models
    /\ UNCHANGED << runVars, pc, error, summaries, callVars, seed, name, check, requires_grad,
                    loaded_from, metricVars, handled, training_returned, selVars >>

\* trainer.fit returns: max_epochs are over or early stopping has struck
FitReturns ==
    /\ pc = "fit"
    /\ fit.epoch >= 1
    /\ pc' = "fit_returned"
    /\ training_returned' = training_returned \cup {name}
    /\ UNCHANGED << runVars, error, fsVars, callVars, seedVars, metricVars, handled,
                    selVars >>

\* variant of WriteDoneFile for C12: the next seed is begun before the metrics
\* of this one are computed
WriteDoneFile_NextSeedBeforeMetrics ==
    /\ pc = "fit_returned"
    /\ saved_models' = DictSet(saved_models, name,
                          [Entry(saved_models, name) EXCEPT
                              !.done = TRUE, !.unfinished = @ \ {fit.best_path}])
    /\ loaded_from' = [model |-> name, path |-> fit.best_path]
    /\ pc' = "seed_loop"
    /\ seed' = seed + 1
    /\ UNCHANGED << runVars, error, summaries, callVars, name, check, requires_grad, fit,
                    metricVars, handled, training_returned, selVars >>

\* create done file, then predict with ckpt_path="best"
WriteDoneFile ==
    /\ pc = "fit_returned"
    /\ saved_models' = DictSet(saved_models, name,
                          [Entry(saved_models, name) EXCEPT
                              !.done = TRUE, !.unfinished = @ \ {fit.best_path}])
    /\ loaded_from' = [model |-> name, path |-> fit.best_path]
    /\ pc' = "metrics"
    /\ UNCHANGED << runVars, error, summaries, callVars, seed, name, check, requires_grad, fit,
                    metricVars, handled, training_returned, selVars >>

\* "Training model" under a simple-regression strategy: the same call
FitSimpleRegression ==
    /\ pc = "fit_simple_regression"
    /\ FitSimpleRegressionCall
    /\ pc' = "simple_regression_returned"
    /\ UNCHANGED << runVars, error, summaries, callVars, seed, name, check, requires_grad,
                    loaded_from, metricVars, handled, selVars >>

\* create done file after fit_simple_regression
WriteDoneFileSimpleRegression ==
    /\ pc = "simple_regression_returned"
    /\ saved_models' = DictSet(saved_models, name,
                          [Entry(saved_models, name) EXCEPT !.done = TRUE])
    /\ loaded_from' = [model |-> name, path |-> <<"s", "i", "m", "p", "l", "e", "_", "r", "e", "g", "r", "e", "s", "s", "i", "o", "n">>]
    /\ pc' = "metrics"
    /\ UNCHANGED << runVars, error, summaries, callVars, seed, name, check, requires_grad, fit,
                    metricVars, handled, training_returned, selVars >>
\* ------------------------------------------------------------- get metrics
\* A column of predictions is a short vector over "x" (a finite number), "nan"
\* and "0".  A recorded metric is the token [seed, dl]: the value measured for
\* that seed on that dataloader.
HasNaN(pred) == \E i \in 1..Len(pred) : pred[i] = "nan"
NanToNum(pred) == [i \in 1..Len(pred) |-> IF pred[i] = "nan" THEN "0" ELSE pred[i]]
SigmoidRound(pred) == pred

ClassificationKeys ==
    { <<"A", "c", "c", "u", "r", "a", "c", "y">>, <<"P", "r", "e", "c", "i", "s", "i", "o", "n">>, <<"R", "e", "c", "a", "l", "l">>, <<"F", "1">>,
      <<"A", "c", "c", "u", "r", "a", "c", "y", "_", "h", "i", "g", "h", "l", "y", "_", "e", "x", "p", "r", "e", "s", "s", "e", "d">>, <<"P", "r", "e", "c", "i", "s", "i", "o", "n", "_", "h", "i", "g", "h", "l", "y", "_", "e", "x", "p", "r", "e", "s", "s", "e", "d">>,
      <<"R", "e", "c", "a", "l", "l", "_", "h", "i", "g", "h", "l", "y", "_", "e", "x", "p", "r", "e", "s", "s", "e", "d">>, <<"F", "1", "_", "h", "i", "g", "h", "l", "y", "_", "e", "x", "p", "r", "e", "s", "s", "e", "d">>, <<"A", "c", "c", "u", "r", "a", "c", "y", "_", "l", "o", "w", "l", "y", "_", "e", "x", "p", "r", "e", "s", "s", "e", "d">> }

\* the regression lists the summary reports
RegressionKeys == { <<"R", "2">>, <<"P", "e", "a", "r", "s", "o", "n", "R">>, <<"S", "p", "e", "a", "r", "m", "a", "n", "R">> }

\* the regression lists that are filled and never reported
UnreportedRegressionKeys ==
    { <<"h", "i", "g", "h", "l", "y", "_", "e", "x", "p", "r", "e", "s", "s", "e", "d", "_", "p", "r", "o", "m", "o", "t", "e", "r", "s", "_", "r", "2">>, <<"h", "i", "g", "h", "l", "y", "_", "e", "x", "p", "r", "e", "s", "s", "e", "d", "_", "p", "r", "o", "m", "o", "t", "e", "r", "s", "_", "p", "e", "a", "r", "s", "o", "n", "r">>,
      <<"h", "i", "g", "h", "l", "y", "_", "e", "x", "p", "r", "e", "s", "s", "e", "d", "_", "p", "r", "o", "m", "o", "t", "e", "r", "s", "_", "s", "r", "h", "o">>, <<"l", "o", "w", "l", "y", "_", "e", "x", "p", "r", "e", "s", "s", "e", "d", "_", "p", "r", "o", "m", "o", "t", "e", "r", "s", "_", "r", "2">>,
      <<"l", "o", "w", "l", "y", "_", "e", "x", "p", "r", "e", "s", "s", "e", "d", "_", "p", "r", "o", "m", "o", "t", "e", "r", "s", "_", "p", "e", "a", "r", "s", "o", "n", "r">>, <<"l", "o", "w", "l", "y", "_", "e", "x", "p", "r", "e", "s", "s", "e", "d", "_", "p", "r", "o", "m", "o", "t", "e", "r", "s", "_", "s", "r", "h", "o">>,
      <<"e", "x", "t", "r", "e", "m", "e", "_", "e", "x", "p", "r", "e", "s", "s", "i", "o", "n", "_", "p", "r", "o", "m", "o", "t", "e", "r", "s", "_", "r", "2">>, <<"e", "x", "t", "r", "e", "m", "e", "_", "e", "x", "p", "r", "e", "s", "s", "i", "o", "n", "_", "p", "r", "o", "m", "o", "t", "e", "r", "s", "_", "p", "e", "a", "r", "s", "o", "n", "r">>,
      <<"e", "x", "t", "r", "e", "m", "e", "_", "e", "x", "p", "r", "e", "s", "s", "i", "o", "n", "_", "p", "r", "o", "m", "o", "t", "e", "r", "s", "_", "s", "r", "h", "o">> }

ConcordanceKeys == { <<"R", "e", "p", "l", "i", "c", "a", "t", "e", "C", "o", "n", "c", "o", "r", "d", "a", "n", "c", "e", "P", "e", "a", "r", "s", "o", "n", "R">>, <<"R", "e", "p", "l", "i", "c", "a", "t", "e", "C", "o", "n", "c", "o", "r", "d", "a", "n", "c", "e", "S", "p", "e", "a", "r", "m", "a", "n", "R">> }

DictGet(d, k) == IF k \in DOMAIN d THEN d[k] ELSE EmptyDict
ListGet(d, k) == IF k \in DOMAIN d THEN d[k] ELSE << >>

\* all_seeds_<key>[output].append(token) for every key of keys
AppendAll(d, keys, output, token) ==
    [k \in DOMAIN d \cup keys |->
        IF k \in keys
        THEN DictSet(DictGet(d, k), output, Append(ListGet(DictGet(d, k), output), token))
        ELSE d[k]]

\* which metrics block handles a dataloader
MetricsBranch(dl, format) ==
    IF str_in(<<"F", "l", "u", "o", "r", "e", "s", "c", "e", "n", "c", "e">>, dl) /\ str_in(<<"c", "l", "a", "s", "s", "i", "f", "i", "c", "a", "t", "i", "o", "n">>, dl) THEN "classification"
    ELSE IF /\ (str_in(<<"F", "l", "u", "o", "r", "e", "s", "c", "e", "n", "c", "e">>, dl) \/ str_in(<<"M", "a", "l", "i", "n", "o", "i", "s", "M", "P", "R", "A">>, dl))
            /\ \/ str_in(<<"j", "o", "i", "n", "t", "_">>, format)
               \/ str_in(<<"f", "i", "n", "e", "t", "u", "n", "e", "_">>, format)
               \/ str_in(<<"l", "i", "n", "e", "a", "r", "_", "p", "r", "o", "b", "i", "n", "g", "_">>, format)
               \/ str_in(<<"i", "n", "d", "i", "v", "i", "d", "u", "a", "l", "_">>, format)
               \/ str_in(<<"s", "i", "m", "p", "l", "e", "_", "r", "e", "g", "r", "e", "s", "s", "i", "o", "n", "_">>, format)
    THEN "regression"
    ELSE "none"

\* the predictions of output j of dataloader i; nan_at names the columns whose
\* predictions hold a NaN, << i, 0 >> standing for the predictions of a
\* dataloader that has no output names
PredColumn(i, j, nan_at) ==
    IF << i, j >> \in nan_at THEN << "x", "nan" >> ELSE << "x", "x" >>

\* dataloader_to_pred of dataloader i, as update_metrics receives it
RawPred(i, nan_at) ==
    IF \E p \in nan_at : p[1] = i THEN << "x", "nan" >> ELSE << "x", "x" >>

\* the measurements of output j of dataloader i; masked_at names the columns
\* whose last measurement is the invalid value -100000, which is where the
\* NaN of the predictions is, if there is one
YColumn(i, j, masked_at) ==
    IF << i, j >> \in masked_at THEN << "y", "-100000" >> ELSE << "y", "y" >>

\* cur_pred[mask] with mask = cur_y != -100000
Mask(cur_pred, cur_y) ==
    SelectSeq([k \in 1..Len(cur_pred) |-> [pred |-> cur_pred[k], y |-> cur_y[k]]],
              LAMBDA row : row.y # "-100000")

MaskedPred(cur_pred, cur_y) ==
    LET rows == Mask(cur_pred, cur_y) IN [k \in 1..Len(rows) |-> rows[k].pred]

\* the metrics of one output; r2_score raises ValueError on NaN input
EvalOutput(acc, seed_arg, i, dl, branch, nan_at, masked_at, j) ==
    LET output == dl.output_names[j]
        raw_pred == PredColumn(i, j, nan_at)
        cur_pred == IF branch = "regression" /\ str_in(<<"M", "a", "l", "i", "n", "o", "i", "s", "M", "P", "R", "A">>, dl.name)
                    THEN MaskedPred(raw_pred, YColumn(i, j, masked_at))
                    ELSE raw_pred
        token == [seed |-> seed_arg, dl |-> i]
    IN IF branch = "classification"
       THEN LET cleaned == SigmoidRound(IF HasNaN(cur_pred) THEN NanToNum(cur_pred)
                                        ELSE cur_pred)
            IN [acc EXCEPT
                  !.metric_inputs = @ \cup {[fn |-> "accuracy_score", dl |-> i,
                                             output |-> output, pred |-> cleaned]},
                  !.all_seeds = AppendAll(@, ClassificationKeys, output, token)]
       ELSE IF HasNaN(cur_pred)
       THEN [acc EXCEPT
               !.error = "ValueError",
               !.metric_inputs = @ \cup {[fn |-> "r2_score", dl |-> i,
                                          output |-> output, pred |-> cur_pred]}]
       ELSE [acc EXCEPT
               !.metric_inputs = @ \cup {[fn |-> "r2_score", dl |-> i,
                                          output |-> output, pred |-> cur_pred]},
               !.all_seeds = AppendAll(@, RegressionKeys \cup UnreportedRegressionKeys,
                                       output, token)]

RECURSIVE EvalOutputs(_, _, _, _, _, _, _, _)
EvalOutputs(acc, seed_arg, i, dl, branch, nan_at, masked_at, j) ==
    IF acc.error # "" \/ j > Len(dl.output_names) THEN acc
    ELSE EvalOutputs(EvalOutput(acc, seed_arg, i, dl, branch, nan_at, masked_at, j),
                     seed_arg, i, dl, branch, nan_at, masked_at, j + 1)

\* the loop "for i, dl in enumerate(all_dataloaders)", update_metrics included
RECURSIVE EvalDataloaders(_, _, _, _, _, _, _)
EvalDataloaders(acc, seed_arg, dls, format, nan_at, masked_at, i) ==
    IF acc.error # "" \/ i > Len(dls) THEN acc
    ELSE LET branch == MetricsBranch(dls[i].name, format)
             after == IF branch = "none" THEN acc
                      ELSE EvalOutputs(acc, seed_arg, i, dls[i], branch, nan_at,
                                       masked_at, 1)
             raw == RawPred(i, nan_at)
         IN IF after.error # "" THEN after
            ELSE EvalDataloaders(
                    [after EXCEPT !.metric_inputs = @ \cup
                        {[fn |-> "update_metrics", dl |-> i, output |-> << >>,
                          pred |-> raw]}],
                    seed_arg, dls, format, nan_at, masked_at, i + 1)

\* the columns of the predictions of all dataloaders
PredColumns(dls) ==
    UNION { IF dls[i].output_names = << >> THEN { << i, 0 >> }
            ELSE { << i, j >> : j \in 1..Len(dls[i].output_names) } : i \in 1..Len(dls) }

\* the sets of columns that may hold a NaN: the network's predictions are not
\* constrained, any columns may
NanChoices(dls) == SUBSET PredColumns(dls)

\* the sets of columns whose last measurement may be -100000: columns of the
\* loaders for which the value is looked at
MaskChoices(dls) ==
    SUBSET { c \in PredColumns(dls) : c[2] # 0 /\ str_in(<<"M", "a", "l", "i", "n", "o", "i", "s", "M", "P", "R", "A">>, dls[c[1]].name) }

ComputeMetrics ==
    /\ pc = "metrics"
    /\ \E nan_at \in NanChoices(all_dataloaders),
          masked_at \in MaskChoices(all_dataloaders) :
         LET r == EvalDataloaders([error |-> "", all_seeds |-> all_seeds,
                                   metric_inputs |-> {}],
                                  seed, all_dataloaders, name_format, nan_at,
                                  masked_at, 1)
         IN /\ metric_inputs' = r.metric_inputs
            /\ all_seeds' = r.all_seeds
            /\ IF r.error # "" THEN Halt(r.error) /\ UNCHANGED seed
               ELSE pc' = "seed_loop" /\ seed' = seed + 1 /\ UNCHANGED error
    /\ UNCHANGED << runVars, fsVars, callVars, name, check, requires_grad, fit, loaded_from,
                    concordance, handled, training_returned, selVars >>

\* ---------------------------------------------------- replicate concordance
\* fluorescence_dl_index after the scan of one seed: None when no loader matches
FluorescenceIndex(dls) ==
    LET hits == { i \in 1..Len(dls) : startswith(dls[i].name, <<"F", "l", "u", "o", "r", "e", "s", "c", "e", "n", "c", "e">>) }
    IN IF hits = {} THEN 0 ELSE CHOOSE i \in hits : \A k \in hits : k <= i

RECURSIVE ConcordanceLoop(_, _, _, _, _, _)
ConcordanceLoop(acc, a, ft, dls, n_models, seed_arg) ==
    IF seed_arg >= n_models \/ acc.error # "" THEN acc
    ELSE IF ~(n_models > 1) THEN [acc EXCEPT !.error = "UnboundLocalError"]
    ELSE LET fresh == [i \in 1..Len(dls) |-> Reinstantiate(a, ft, acc.dls[i], seed_arg)]
             idx == FluorescenceIndex(fresh)
         IN IF idx = 0 THEN [acc EXCEPT !.error = "TypeError", !.dls = fresh]
            ELSE ConcordanceLoop(
                    [acc EXCEPT
                       !.dls = fresh,
                       !.concordance =
                          LET add[j \in 0..Len(fresh[idx].output_names)] ==
                                IF j = 0 THEN acc.concordance
                                ELSE AppendAll(add[j - 1], ConcordanceKeys,
                                               fresh[idx].output_names[j],
                                               [seed |-> seed_arg, dl |-> idx])
                          IN add[Len(fresh[idx].output_names)]],
                    a, ft, dls, n_models, seed_arg + 1)

\* the seed loop is over: compute and plot replicate concordance
ReplicateConcordance ==
    /\ pc = "seed_loop"
    /\ seed >= num_models_to_train
    /\ IF <<"F", "l", "u", "o", "r", "e", "s", "c", "e", "n", "c", "e", "D", "a", "t", "a">> \notin DOMAIN dataloaders
       THEN /\ pc' = "summary"
            /\ UNCHANGED << error, all_dataloaders, concordance >>
       ELSE LET r == ConcordanceLoop([error |-> "", dls |-> all_dataloaders,
                                      concordance |-> EmptyDict],
                                     args, finetune, all_dataloaders,
                                     num_models_to_train, 0)
            IN /\ all_dataloaders' = r.dls
               /\ concordance' = r.concordance
               /\ IF r.error # "" THEN Halt(r.error)
                  ELSE pc' = "summary" /\ UNCHANGED error
    /\ UNCHANGED << runVars, fsVars, tasks, pretrain_tasks, pretrained_checkpoint, hp,
                    num_models_to_train, name_format, dataloaders, seedVars, all_seeds,
                    metric_inputs, handled, training_returned, selVars >>

\* ------------------------------------------------------------------ summary
Average(values) == [fn |-> "np.average", of |-> values]
Std(values) == [fn |-> "np.std", of |-> values]
Disp(values) == [fn |-> "disp", of |-> values]

\* the keys one list adds to the summary
SummaryEntries(output, key, values) ==
    { << output \o <<"_", "a", "l", "l", "_">> \o key, values >>,
      << output \o <<"_", "a", "v", "g", "_">> \o key, Average(values) >>,
      << output \o <<"_", "s", "t", "d", "_">> \o key, Std(values) >>,
      << output \o <<"_", "a", "v", "g", "_">> \o key \o <<"_", "d", "i", "s", "p">>, Disp(values) >> }

SummaryOf(lists, keys) ==
    UNION { UNION { SummaryEntries(output, k, DictGet(lists, k)[output]) :
                      output \in DOMAIN DictGet(lists, k) } : k \in keys }

\* summary = vars(args) with the entries of this call added: the dictionary is
\* the namespace of args itself
BuildSummary(extra, lists, conc, with_concordance) ==
    LET pairs == SummaryOf(lists, ClassificationKeys \cup RegressionKeys)
                 \cup (IF with_concordance THEN SummaryOf(conc, ConcordanceKeys) ELSE {})
        fresh == [k \in { p[1] : p \in pairs } |-> (CHOOSE p \in pairs : p[1] = k)[2]]
    IN fresh @@ extra

HasFinalResults(lists) ==
    DOMAIN DictGet(lists, <<"R", "2">>) # {} \/ DOMAIN DictGet(lists, <<"A", "c", "c", "u", "r", "a", "c", "y">>) # {}

\* "FINAL RESULTS ON FLUORESCENCE DATA" and the summary file
WriteSummary ==
    /\ pc = "summary"
    /\ IF HasFinalResults(all_seeds)
       THEN /\ args_extra' = BuildSummary(args_extra, all_seeds, concordance,
                                          <<"F", "l", "u", "o", "r", "e", "s", "c", "e", "n", "c", "e", "D", "a", "t", "a">> \in DOMAIN dataloaders)
            /\ summaries' = DictSet(summaries, name_format \o <<"_", "d", "l", "s", "e", "e", "d", ".", "j", "s", "o", "n">>,
                                    DumpedFile(args, args_extra'))
       ELSE UNCHANGED << args_extra, summaries >>
    /\ pc' = "returned"
    /\ UNCHANGED << workload, run, args, finetune, error, saved_models, callVars,
                    seedVars, metricVars, handled, training_returned, selVars >>

\* the positions of a started script
RunningPcs ==
    { "setup_tasks", "load_pretrained", "setup_training", "instantiate", "seed_loop",
      "use_existing", "train", "fit", "fit_simple_regression", "fit_returned",
      "simple_regression_returned", "metrics", "summary", "returned" }

\* the process is killed: its files stay and its locals are gone; when training
\* has returned, open(done_file, "w+") may already have created done.txt, and
\* when the summary is about to be saved, open(..., "w") may already have
\* created or truncated the summary file and json.dump may have written a part
\* of it
Interrupt ==
    /\ pc \in RunningPcs
    /\ Halt("KeyboardInterrupt")
    /\ CallReset
    /\ \/ UNCHANGED << saved_models, summaries >>
       \/ /\ pc \in {"fit_returned", "simple_regression_returned"}
          /\ saved_models' = DictSet(saved_models, name,
                                [Entry(saved_models, name) EXCEPT
                                    !.done = TRUE, !.unfinished = @ \ {fit.best_path}])
          /\ UNCHANGED summaries
       \/ /\ pc = "summary"
          /\ HasFinalResults(all_seeds)
          /\ \E file \in {EmptyFile, PartlyWrittenFile} :
                summaries' = DictSet(summaries, name_format \o <<"_", "d", "l", "s", "e", "e", "d", ".", "j", "s", "o", "n">>, file)
          /\ UNCHANGED saved_models
    /\ UNCHANGED << runVars, training_returned, selVars >>

\* train_model returns to the module level, which calls it again with
\* finetune=True under a pretrain strategy
ReturnFromTrainModel ==
    /\ pc = "returned"
    /\ IF str_in(<<"p", "r", "e", "t", "r", "a", "i", "n">>, args.modelling_strategy) /\ ~finetune
       THEN /\ finetune' = TRUE
            /\ pc' = "setup_tasks"
            /\ CallReset
       ELSE /\ pc' = "finished"
            /\ UNCHANGED << finetune, callVars, seedVars, metricVars, handled >>
    /\ UNCHANGED << workload, run, args, args_extra, error, fsVars, training_returned,
                    selVars >>

Next ==
    \/ StartRun
    \/ SetupTasks
    \/ LoadPretrainedCheckpoint
    \/ SetupTraining
    \/ InstantiateDataloaders
    \/ BeginSeed
    \/ UseExistingModel
    \/ BeginTraining
    \/ FitEpoch
    \/ FitReturns
    \/ WriteDoneFile
    \/ FitSimpleRegression
    \/ WriteDoneFileSimpleRegression
    \/ Interrupt
    \/ ComputeMetrics
    \/ ReplicateConcordance
    \/ WriteSummary
    \/ ReturnFromTrainModel

Spec == Init /\ [][Next]_vars

\* --------------------------------------------- checkpoint selection, alone
\* the monitored values a checkpoint name can carry: finite ones of either sign,
\* and the non-finite ones that callbacks format as inf, -inf and nan
MetricValues ==
    { Num(k * MaxMetricSteps * MetricStep) : k \in {0 - 1, 0, 1} }
    \cup { PosInf, NegInf, NaN }

\* the version suffixes: none, -v1 and a two-digit one
Versions == { 0, 1, MaxVersion }

CheckpointFiles ==
    [epoch : {0, MaxEpoch}, value : MetricValues, version : Versions]

Directions == { <<"m", "i", "n">>, <<"m", "a", "x">> }
DefaultMetric == <<"v", "a", "l", "_", "l", "o", "s", "s">>

FileNameOf(f) == CheckpointFileName(f.epoch, DefaultMetric, f.value, f.version)

\* the listing os.listdir returns for the files of sel_files, in its order
Listing(files) == [i \in 1..Len(files) |-> FileNameOf(files[i])]

InitSelect ==
    /\ workload = "selection"
    /\ run = 0
    /\ args = NoArgs
    /\ args_extra = EmptyDict
    /\ finetune = FALSE
    /\ pc = "selection"
    /\ error = ""
    /\ saved_models = EmptyDict
    /\ summaries = EmptyDict
    /\ tasks = << >>
    /\ pretrain_tasks = Unbound
    /\ pretrained_checkpoint = NoCheckpoint
    /\ hp = NoHp
    /\ num_models_to_train = 0
    /\ name_format = << >>
    /\ dataloaders = EmptyDict
    /\ all_dataloaders = << >>
    /\ seed = 0
    /\ name = << >>
    /\ check = FALSE
    /\ fit = NoFit
    /\ loaded_from = NoCheckpoint
    /\ requires_grad = EmptyDict
    /\ all_seeds = EmptyDict
    /\ concordance = EmptyDict
    /\ metric_inputs = {}
    /\ handled = << >>
    /\ training_returned = {}
    /\ sel_files \in UNION { [1..n -> CheckpointFiles] : n \in 0..MaxFiles }
    /\ \A i, j \in 1..Len(sel_files) : i # j => sel_files[i] # sel_files[j]
    /\ sel_direction \in Directions
    /\ sel_site = "none"
    /\ sel_result = [error |-> FALSE, best_metric |-> NaN, best_model_path |-> << >>]

SelectPretrained ==
    /\ sel_site = "none"
    /\ sel_site' = "pretrained"
    /\ sel_result' = FindBestPretrainedModel(Listing(sel_files), sel_direction)
    /\ UNCHANGED << runVars, pc, error, fsVars, callVars, seedVars, metricVars, handled,
                    training_returned, sel_files, sel_direction >>

SelectExisting ==
    /\ sel_site = "none"
    /\ sel_site' = "existing"
    /\ sel_result' = FindBestExistingModel(Listing(sel_files), sel_direction)
    /\ UNCHANGED << runVars, pc, error, fsVars, callVars, seedVars, metricVars, handled,
                    training_returned, sel_files, sel_direction >>

NextSelect == SelectPretrained \/ SelectExisting

SpecSelect == InitSelect /\ [][NextSelect]_vars


\* =================================================================== claims
TrainingPcs ==
    { "train", "fit", "fit_returned", "fit_simple_regression",
      "simple_regression_returned" }

\* the process was killed from outside
Killed == pc = "halted" /\ error = "KeyboardInterrupt"

\* --------------------------------------------------------------------- C1
\* C1: for a non-empty checkpoints directory whose file names all encode a
\* metric value, best-checkpoint selection (loading the pretrained model, and
\* reusing an existing model) returns a file name of the listing whose encoded
\* value is optimal: under min no file encodes a strictly smaller value, under
\* max none encodes a strictly larger one.  Stated for the listings whose
\* version suffixes have one digit; longer suffixes are the matter of C11.
OneDigitVersions(files) == \A i \in 1..Len(files) : files[i].version < 10

C1_SelectionReturnsOptimalFile ==
    (sel_site \in {"pretrained", "existing"} /\ sel_files # << >>
        /\ OneDigitVersions(sel_files)) =>
        /\ ~sel_result.error
        /\ \E i \in 1..Len(sel_files) :
              /\ sel_result.best_model_path = FileNameOf(sel_files[i])
              /\ \A j \in 1..Len(sel_files) :
                    IF sel_direction = <<"m", "i", "n">>
                    THEN ~FloatLt(sel_files[j].value, sel_files[i].value)
                    ELSE ~FloatLt(sel_files[i].value, sel_files[j].value)

\* --------------------------------------------------------------------- C2
\* C2: with --use_existing_models set, a model whose checkpoints directory and
\* done.txt both exist is not trained again: the seed takes the reuse path,
\* on which nothing is written under saved_models, trainer.fit is not called
\* and no model is fitted, and goes on to the metrics.  In every other case
\* (flag not set, directory missing, done.txt missing) the seed takes the
\* training path, whose next step is the training call, and the model has been
\* trained when that call returns.  (A process killed from outside takes no
\* next step.)
C2_ReuseExactlyWhenDone ==
    [][ /\ (pc = "seed_loop" /\ seed < num_models_to_train /\ pc' # "seed_loop"
              /\ ~Killed') =>
              LET e == Entry(saved_models, name')
              IN /\ pc' \in {"use_existing", "train"}
                 /\ (pc' = "use_existing")
                        <=> (args.use_existing_models /\ e.dir /\ e.done)
        /\ (pc = "use_existing") =>
              /\ pc' \in {"use_existing", "metrics", "halted"}
              /\ saved_models' = saved_models
              /\ training_returned' = training_returned
              /\ fit'.call # "trainer.fit"
              /\ ~fit'.trained
        /\ (pc' \in {"fit_returned", "simple_regression_returned"}) => fit'.trained
        /\ (pc = "train" /\ ~Killed') => pc' \in {"train", "fit", "fit_simple_regression"}
        /\ (pc' \in TrainingPcs) => pc \in TrainingPcs \cup {"seed_loop"}
      ]_vars

\* --------------------------------------------------------------------- C3
\* C3: done.txt of a model is written only after the training call of that
\* model (trainer.fit, or fit_simple_regression) has returned: it comes into
\* existence only in the step that follows the return of that call, so that,
\* starting from a directory tree without it, it never exists for a model
\* whose training has not finished or was interrupted.
C3_DoneOnlyAfterTrainingReturned ==
    /\ [](\A n \in DOMAIN saved_models :
              saved_models[n].done => n \in training_returned)
    /\ [][ \A n \in DOMAIN saved_models' :
              (saved_models'[n].done /\ ~Entry(saved_models, n).done) =>
                  /\ n = name
                  /\ pc \in {"fit_returned", "simple_regression_returned"}
                  /\ n \in training_returned ]_vars

\* one model is done, another was interrupted after its first checkpoint
C3_Witness ==
    /\ Killed
    /\ \E n \in DOMAIN saved_models :
          /\ n # << >>
          /\ saved_models[n].unfinished # {}
          /\ ~saved_models[n].done
          /\ n \notin training_returned
    /\ \E n \in DOMAIN saved_models : saved_models[n].done

\* --------------------------------------------------------------------- C4
\* C4: for every strategy containing "pretrain", the finetuning phase starts
\* only after the pretraining phase has completed: whenever the finetuning
\* phase is about to list the checkpoints directory of the pretrained model,
\* and after it has loaded a checkpoint from it, done.txt of the pretrained
\* model exists.
C4_FinetuneAfterPretrainingDone ==
    (finetune /\ pretrain_tasks # Unbound
        /\ (pc = "load_pretrained" \/ pretrained_checkpoint # NoCheckpoint)) =>
        Entry(saved_models, PretrainedModelName(args, pretrain_tasks)).done

\* the finetuning phase has loaded the pretrained checkpoint
C4_Witness ==
    /\ finetune
    /\ pretrained_checkpoint # NoCheckpoint
    /\ pc = "fit"

\* --------------------------------------------------------------------- C5
\* C5: when the task list the strategy requires is absent (joint without
\* --joint_tasks, a pretrain strategy without --pretrain_tasks or without
\* --finetune_tasks, a single_task strategy without --single_task) the run
\* halts with an AssertionError before any dataloader is instantiated or any
\* model is handled; a pretrain strategy without --finetune_tasks halts before
\* pretraining starts.  (The only other way such a run ends is by being
\* killed before the assertion.)
MissingTaskList(a) ==
    \/ (a.modelling_strategy = <<"j", "o", "i", "n", "t">> /\ a.joint_tasks = None)
    \/ (startswith(a.modelling_strategy, <<"p", "r", "e", "t", "r", "a", "i", "n">>)
          /\ (a.pretrain_tasks = None \/ a.finetune_tasks = None))
    \/ (startswith(a.modelling_strategy, <<"s", "i", "n", "g", "l", "e", "_", "t", "a", "s", "k">>) /\ a.single_task = None)

C5_MissingTaskListHalts ==
    (run >= 1 /\ MissingTaskList(args)) =>
        /\ pc \in {"setup_tasks", "halted"}
        /\ (pc = "halted" => (error = "AssertionError" \/ Killed))
        /\ ~finetune
        /\ dataloaders = EmptyDict
        /\ all_dataloaders = << >>
        /\ handled = << >>
        /\ saved_models = EmptyDict

\* a pretrain strategy that lacks only --finetune_tasks has halted
C5_Witness ==
    /\ pc = "halted"
    /\ error = "AssertionError"
    /\ args.modelling_strategy = <<"p", "r", "e", "t", "r", "a", "i", "n", "+", "f", "i", "n", "e", "t", "u", "n", "e">>
    /\ args.pretrain_tasks # None
    /\ args.finetune_tasks = None

\* --------------------------------------------------------------------- C6
\* C6: a --modelling_strategy value that is not one of the six listed values
\* halts the run before any model is trained.
C6_UnlistedStrategyTrainsNothing ==
    (run >= 1 /\ args.modelling_strategy \notin Strategies) =>
        /\ pc \notin TrainingPcs
        /\ handled = << >>
        /\ saved_models = EmptyDict

\* --------------------------------------------------------------------- C7
\* C7: every train_model call that completes its seed loop writes one JSON
\* summary file, <name_format>_dlseed.json, holding the per-seed and averaged
\* metrics of that run.  Stated for the calls that recorded a metric in their
\* seed loop: once such a call has ended, by returning or by an exception, its
\* summary file exists and holds the entries of the call.
SeedLoopCompleted ==
    /\ handled # << >>
    /\ Len(handled) = num_models_to_train
    /\ seed = num_models_to_train

C7_SummaryWrittenAfterSeedLoop ==
    (SeedLoopCompleted /\ HasFinalResults(all_seeds)
        /\ pc \in {"returned", "finished", "halted"}) =>
        LET file == name_format \o <<"_", "d", "l", "s", "e", "e", "d", ".", "j", "s", "o", "n">>
        IN /\ file \in DOMAIN summaries
           /\ summaries[file].entries = args_extra
           /\ \A k \in ClassificationKeys \cup RegressionKeys :
                 \A output \in DOMAIN DictGet(all_seeds, k) :
                    (output \o <<"_", "a", "l", "l", "_">> \o k) \in DOMAIN summaries[file].entries

\* --------------------------------------------------------------------- C8
\* C8: for every output name and metric in the summary, the "_all_" entry is
\* the list of that metric's values with exactly one value per trained seed,
\* in increasing seed order, and the "_avg_" and "_std_" entries are the mean
\* and the standard deviation of exactly that list.
AllKeys(entries) == { k \in DOMAIN entries : str_in(<<"_", "a", "l", "l", "_">>, k) }
KeyOutput(k) == SubSeq(k, 1, str_find(k, <<"_", "a", "l", "l", "_">>) - 1)
KeyMetric(k) == SubSeq(k, str_find(k, <<"_", "a", "l", "l", "_">>) + 5, Len(k))

C8_OneValuePerTrainedSeed ==
    (pc = "returned" /\ (name_format \o <<"_", "d", "l", "s", "e", "e", "d", ".", "j", "s", "o", "n">>) \in DOMAIN summaries) =>
        LET entries == summaries[name_format \o <<"_", "d", "l", "s", "e", "e", "d", ".", "j", "s", "o", "n">>].entries
        IN \A k \in AllKeys(entries) :
              /\ Len(entries[k]) = Len(handled)
              /\ \A i \in 1..Len(entries[k]) : entries[k][i].seed = handled[i]
              /\ entries[KeyOutput(k) \o <<"_", "a", "v", "g", "_">> \o KeyMetric(k)] = Average(entries[k])
              /\ entries[KeyOutput(k) \o <<"_", "s", "t", "d", "_">> \o KeyMetric(k)] = Std(entries[k])

\* --------------------------------------------------------------------- C9
\* C9: for every output of every evaluated dataloader, NaN values in the
\* predictions are detected and replaced by 0 before any metric of that output
\* is computed: no metric function is handed predictions that hold a NaN.
C9_NoNaNReachesAMetric ==
    \A m \in metric_inputs : ~HasNaN(m.pred)

\* -------------------------------------------------------------------- C10
\* C10: a joint, single-task or finetuning phase handles exactly
\* --num_random_seeds models, using each seed 0..N-1 exactly once in
\* increasing order; a pretraining phase handles exactly one model whatever
\* --num_random_seeds is.
ModelsOfPhase ==
    IF str_in(<<"p", "r", "e", "t", "r", "a", "i", "n">>, args.modelling_strategy) /\ ~finetune
    THEN 1 ELSE args.num_random_seeds

C10_SeedsHandledOnceInOrder ==
    (run >= 1) =>
        /\ Len(handled) <= ModelsOfPhase
        /\ \A i \in 1..Len(handled) : handled[i] = i - 1
        /\ (pc \in {"summary", "returned", "finished"}) => Len(handled) = ModelsOfPhase

\* a finetuning phase has handled two seeds, after a pretraining phase of one
C10_Witness ==
    /\ pc = "returned"
    /\ finetune
    /\ args.num_random_seeds = 2
    /\ handled = << 0, 1 >>

\* -------------------------------------------------------------------- C11
\* C11: every checkpoint file name that training produces (epoch with two
\* digits, the metric with five decimals, a "-vN" version suffix on a name
\* clash, the extension ".ckpt") is parsed by the selection code back to the
\* metric value embedded in it, for every version N >= 1 and for negative
\* values as well: for each file of a listing the selection code has gone
\* through, float() succeeds and yields the value the name was written with.
C11_FileNameParsesBackToMetric ==
    (sel_site \in {"pretrained", "existing"}) =>
        \A i \in 1..Len(sel_files) :
            LET val_metric == ParseValMetric(FileNameOf(sel_files[i]))
            IN /\ val_metric.ok
               /\ val_metric.val = sel_files[i].value

\* -------------------------------------------------------------------- C12
\* C12: seeds are processed strictly one after another.  While a seed is being
\* loaded, trained or evaluated it is the last seed begun, every evaluated
\* output already holds the test-set metrics of exactly the seeds before it,
\* in order, and of no other seed; and at no time are two models being
\* trained: a step changes the directory of at most one model, the model of
\* the seed in hand, and only on the reuse or training path of that seed.
SeedInHandPcs == TrainingPcs \cup { "use_existing", "metrics" }

\* the key under which a metrics block records first
FirstKeyOf(branch) == IF branch = "classification" THEN <<"A", "c", "c", "u", "r", "a", "c", "y">> ELSE <<"R", "2">>

SeedsOf(tokens) == [i \in 1..Len(tokens) |-> tokens[i].seed]

EarlierSeedsRecorded ==
    /\ \A k \in DOMAIN all_seeds : \A output \in DOMAIN all_seeds[k] :
          SeedsOf(all_seeds[k][output]) = [i \in 1..seed |-> i - 1]
    /\ \A i \in 1..Len(all_dataloaders) :
          LET branch == MetricsBranch(all_dataloaders[i].name, name_format)
          IN (branch # "none" /\ seed > 0) =>
                \A j \in 1..Len(all_dataloaders[i].output_names) :
                   Len(ListGet(DictGet(all_seeds, FirstKeyOf(branch)),
                               all_dataloaders[i].output_names[j])) = seed

C12_SeedsOneAfterAnother ==
    /\ [](pc \in SeedInHandPcs =>
             /\ handled = [i \in 1..(seed + 1) |-> i - 1]
             /\ name = ModelName(name_format, num_models_to_train, seed)
             /\ EarlierSeedsRecorded)
    /\ [][ /\ \A n \in DOMAIN saved_models' :
                 saved_models'[n] # Entry(saved_models, n) =>
                     n = name /\ pc \in TrainingPcs \cup {"use_existing"}
           /\ (pc \in SeedInHandPcs /\ pc' \in SeedInHandPcs) =>
                 seed' = seed /\ name' = name
           /\ (seed' # seed /\ pc' # "setup_tasks" /\ ~Killed') =>
                 pc = "metrics" /\ seed' = seed + 1 ]_vars

\* the second seed is being trained after the metrics of the first were recorded
C12_Witness ==
    /\ pc = "fit"
    /\ seed = 1
    /\ fit.epoch = 1
    /\ \E output \in DOMAIN DictGet(all_seeds, <<"R", "2">>) :
          SeedsOf(all_seeds[<<"R", "2">>][output]) = << 0 >>

\* -------------------------------------------------------------------- C13
\* C13: nothing is retried or recovered.  An exception (a failed assertion, a
\* failed checkpoint load, a failed or interrupted training step, a failed
\* metric) ends the run where it is raised: the only step that follows is a
\* new start of the script, so no later seed and no later phase is run.
\* Within one run each model name is trained at most once: the model being
\* trained is none of the models of the earlier seeds of the phase and, in a
\* finetuning phase, not the pretrained model.
NamesOfEarlierSeeds ==
    { ModelName(name_format, num_models_to_train, handled[i]) :
        i \in 1..(Len(handled) - 1) }

NameOfPretrainingPhase == NameFormat(args, FALSE, pretrain_tasks, pretrain_tasks)

C13_NoRetryNoRecovery ==
    /\ []((error # "") <=> (pc = "halted"))
    /\ [](pc \in TrainingPcs =>
             /\ name \notin NamesOfEarlierSeeds
             /\ (finetune /\ pretrain_tasks # Unbound) => name # NameOfPretrainingPhase)
    /\ [][ (error # "") =>
              /\ pc' = "setup_tasks"
              /\ run' = run + 1
              /\ error' = ""
              /\ handled' = << >>
              /\ saved_models' = saved_models
              /\ summaries' = summaries ]_vars

\* the pretraining phase of a second invocation was killed after its first
\* checkpoint: the finetuning phase of the run is never entered
C13_Witness ==
    /\ Killed
    /\ str_in(<<"p", "r", "e", "t", "r", "a", "i", "n">>, args.modelling_strategy)
    /\ ~finetune
    /\ run = 2
    /\ \E n \in DOMAIN saved_models :
          /\ startswith(n, <<"p", "r", "e", "t", "r", "a", "i", "n", "_", "o", "n", "_">>)
          /\ saved_models[n].unfinished # {}

\* -------------------------------------------------------------------- C14
\* C14: in the pretraining phase every training parameter handed to the model
\* wrapper, the checkpoint callback, early stopping and the trainer (learning
\* rate, weight decay, batch size, maximum epochs, train mode, monitored
\* metric and its direction) is the --pretrain_* value; in every other phase
\* each of them is the non-pretrain value.
PhaseIsPretraining == str_in(<<"p", "r", "e", "t", "r", "a", "i", "n">>, args.modelling_strategy) /\ ~finetune

C14_ParametersOfThePhase ==
    (handled # << >>) =>
        LET wrapper == MTLPredictorArgs(args, finetune, hp)
            checkpoint == ModelCheckpointArgs(hp)
            stopping == EarlyStoppingArgs(hp)
            trainer == TrainerArgs(hp)
        IN IF PhaseIsPretraining
           THEN /\ wrapper.lr = args.pretrain_lr
                /\ wrapper.weight_decay = args.pretrain_weight_decay
                /\ wrapper.batch_size = args.pretrain_batch_size
                /\ wrapper.train_mode = args.pretrain_train_mode
                /\ wrapper.max_epochs = args.pretrain_max_epochs
                /\ trainer.max_epochs = args.pretrain_max_epochs
                /\ checkpoint.monitor = args.pretrain_metric_to_monitor
                /\ checkpoint.mode = args.pretrain_metric_direction_which_is_optimal
                /\ stopping.monitor = args.pretrain_metric_to_monitor
                /\ stopping.mode = args.pretrain_metric_direction_which_is_optimal
           ELSE /\ wrapper.lr = args.lr
                /\ wrapper.weight_decay = args.weight_decay
                /\ wrapper.batch_size = args.batch_size
                /\ wrapper.train_mode = args.train_mode
                /\ wrapper.max_epochs = args.max_epochs
                /\ trainer.max_epochs = args.max_epochs
                /\ checkpoint.monitor = args.metric_to_monitor
                /\ checkpoint.mode = args.metric_direction_which_is_optimal
                /\ stopping.monitor = args.metric_to_monitor
                /\ stopping.mode = args.metric_direction_which_is_optimal

\* -------------------------------------------------------------------- C15
\* C15: for a model name starting with "MotifBased", a phase proceeds past
\* task setup only if its task list has exactly one task and that task is
\* FluorescenceData, FluorescenceData_DE or Malinois_MPRA; a phase whose task
\* list is anything else halts with an AssertionError before any dataloader
\* is instantiated.  (The only other way such a phase ends is by being killed
\* before the assertion.)
MotifBasedTasks == { <<"F", "l", "u", "o", "r", "e", "s", "c", "e", "n", "c", "e", "D", "a", "t", "a">>, <<"F", "l", "u", "o", "r", "e", "s", "c", "e", "n", "c", "e", "D", "a", "t", "a", "_", "D", "E">>, <<"M", "a", "l", "i", "n", "o", "i", "s", "_", "M", "P", "R", "A">> }

TaskListAllowsMotifs(task_list) ==
    Len(task_list) = 1 /\ task_list[1] \in MotifBasedTasks

C15_MotifBasedTaskListAsserted ==
    (run >= 1 /\ startswith(args.model_name, <<"M", "o", "t", "i", "f", "B", "a", "s", "e", "d">>)) =>
        /\ (pc \notin {"setup_tasks", "halted"}) => TaskListAllowsMotifs(tasks)
        /\ LET s == SetupTasksOf(args, finetune)
           IN (s.error = "" /\ ~TaskListAllowsMotifs(s.tasks)) =>
                 /\ pc \in {"setup_tasks", "halted"}
                 /\ (pc = "halted") => (error = "AssertionError" \/ Killed)
                 /\ dataloaders = EmptyDict
                 /\ all_dataloaders = << >>
                 /\ handled = << >>

\* a motif-based model was asked to train on two tasks and has halted
C15_Witness ==
    /\ pc = "halted"
    /\ error = "AssertionError"
    /\ startswith(args.model_name, <<"M", "o", "t", "i", "f", "B", "a", "s", "e", "d">>)
    /\ Len(tasks) = 2

\* -------------------------------------------------------------------- C16
\* C16: the optional name suffix is appended to the model name in every phase
\* except pretraining.  Once a phase has set up its name format, with a suffix
\* given: outside pretraining the name format ends with "_" and the suffix,
\* and so the name of every model of the phase carries it before its seed
\* part; in the pretraining phase the name format is the plain
\* "pretrain_on_<tasks>" (after the model prefix) and does not carry it.
endswith(s, p) == Len(p) <= Len(s) /\ SubSeq(s, Len(s) - Len(p) + 1, Len(s)) = p

ModelPrefix == IF args.model_name # <<"M", "T", "L", "u", "c", "i", "f", "e", "r">> THEN args.model_name \o <<"_">> ELSE << >>

C16_SuffixExceptWhenPretraining ==
    (hp # NoHp /\ args.optional_name_suffix # None) =>
        LET suffix == <<"_">> \o args.optional_name_suffix
        IN IF PhaseIsPretraining
           THEN /\ name_format = ModelPrefix \o <<"p", "r", "e", "t", "r", "a", "i", "n", "_", "o", "n", "_">> \o join(<<"+">>, tasks)
                /\ ~endswith(name_format, suffix)
                /\ (handled # << >>) => name = name_format
           ELSE /\ endswith(name_format, suffix)
                /\ (handled # << >>) =>
                      /\ startswith(name, name_format)
                      /\ (num_models_to_train <= 1) => name = name_format

\* a finetuning phase trains a model whose name carries the suffix, after the
\* pretraining phase trained one whose name does not
C16_Witness ==
    /\ finetune
    /\ args.optional_name_suffix # None
    /\ pc = "fit"
    /\ endswith(name, <<"_">> \o args.optional_name_suffix)
    /\ Entry(saved_models, PretrainedModelName(args, pretrain_tasks)).done

\* -------------------------------------------------------------------- C17
\* C17: over any sequence of runs on the same directory tree (with or without
\* --use_existing_models, runs interrupted during training included), whenever
\* a run takes the reuse path for a model, every checkpoint file that
\* best-checkpoint selection considers, that is every file of the model's
\* checkpoints directory, was written by a training run of that model that
\* ran to completion.
C17_ReuseConsidersCompletedTrainingOnly ==
    (pc = "use_existing" /\ ~IsSimpleRegression(args, finetune)) =>
        Entry(saved_models, name).unfinished = {}

\* -------------------------------------------------------------------- C18
\* C18: when the task list contains FluorescenceData, the replicate-concordance
\* pass handles every seed 0..N-1 for every N >= 1, the default N = 1 and the
\* single-model pretraining phase included: once the seed loop is over and the
\* pass has been entered, the phase is on its way to the summary or past it,
\* not halted, and the pass has recorded one Pearson and one Spearman value
\* per output of the Fluorescence loader per seed.
C18_ConcordanceHandlesEverySeed ==
    (SeedLoopCompleted /\ <<"F", "l", "u", "o", "r", "e", "s", "c", "e", "n", "c", "e", "D", "a", "t", "a">> \in DOMAIN dataloaders
        /\ pc # "seed_loop") =>
        /\ pc \in {"summary", "returned", "finished"}
        /\ FluorescenceIndex(all_dataloaders) # 0
        /\ LET fd == all_dataloaders[FluorescenceIndex(all_dataloaders)]
           IN \A k \in ConcordanceKeys : \A j \in 1..Len(fd.output_names) :
                 SeedsOf(ListGet(DictGet(concordance, k), fd.output_names[j]))
                    = [i \in 1..num_models_to_train |-> i - 1]

\* -------------------------------------------------------------------- C19
\* C19: in the finetuning phase of a linear-probing strategy, before training
\* starts every model parameter whose name begins with "Backbone.promoter_"
\* has requires_grad False and the flag of every other parameter is left as it
\* was; in no other phase or strategy is any parameter frozen.  requires_grad
\* changes only in the step that leads up to trainer.fit of such a phase.
LinearProbingPhase == args.modelling_strategy = <<"p", "r", "e", "t", "r", "a", "i", "n", "+", "l", "i", "n", "e", "a", "r", "_", "p", "r", "o", "b", "i", "n", "g">> /\ finetune

InPromoterBackbone(p) == startswith(p, <<"B", "a", "c", "k", "b", "o", "n", "e", ".", "p", "r", "o", "m", "o", "t", "e", "r", "_">>)

C19_BackboneFrozenForLinearProbingOnly ==
    /\ []((pc \in {"fit", "fit_returned"} /\ LinearProbingPhase) =>
             \A p \in NamedParameters :
                IF InPromoterBackbone(p) THEN ~requires_grad[p]
                ELSE requires_grad[p] = InitialRequiresGrad[p])
    /\ []((~LinearProbingPhase /\ handled # << >>) =>
             requires_grad = InitialRequiresGrad)
    /\ [][ (handled' = handled /\ requires_grad' # requires_grad) =>
              /\ LinearProbingPhase
              /\ pc = "train" /\ pc' = "fit"
              /\ \A p \in NamedParameters :
                    ~InPromoterBackbone(p) => requires_grad'[p] = requires_grad[p] ]_vars

\* a linear-probing phase trains with the promoter backbone frozen and the rest
\* of the backbone trainable
C19_Witness ==
    /\ LinearProbingPhase
    /\ pc = "fit"
    /\ fit.epoch = 1
    /\ ~requires_grad[<<"B", "a", "c", "k", "b", "o", "n", "e", ".", "p", "r", "o", "m", "o", "t", "e", "r", "_", "c", "o", "n", "v", ".", "w", "e", "i", "g", "h", "t">>]
    /\ requires_grad[<<"B", "a", "c", "k", "b", "o", "n", "e", ".", "c", "l", "s", "_", "t", "o", "k", "e", "n">>]

\* -------------------------------------------------------------------- C20
\* C20: the special task names all_tasks and RNASeq are each expanded to a
\* non-empty list of dataloaders under every strategy whose task list may
\* contain them, RNASeq to the LL100, CCLE and Roadmap loaders in that order:
\* once a phase has gone through "instantiate dataloaders", every special task
\* of its task list has such a list in dataloaders.
SpecialTasks == { <<"a", "l", "l", "_", "t", "a", "s", "k", "s">>, <<"R", "N", "A", "S", "e", "q">> }

ClassesOf(loaders) == [i \in 1..Len(loaders) |-> loaders[i].cls]

C20_SpecialTasksExpanded ==
    (hp # NoHp /\ pc # "instantiate") =>
        \A i \in 1..Len(tasks) :
            tasks[i] \in SpecialTasks =>
                /\ tasks[i] \in DOMAIN dataloaders
                /\ dataloaders[tasks[i]].kind = "list"
                /\ dataloaders[tasks[i]].loaders # << >>
                /\ (tasks[i] = <<"R", "N", "A", "S", "e", "q">>) =>
                      ClassesOf(dataloaders[tasks[i]].loaders)
                         = << "LL100", "CCLE", "Roadmap" >>

\* -------------------------------------------------------------------- C21
\* C21: in a multi-seed phase, re-instantiating a Fluorescence loader for a
\* seed yields the loader variant that the initial dispatch chose for that
\* task (loader class, cache directory, use_construct, predict_DE,
\* return_specified_cells), for every model name and strategy; only the seed
\* differs.  Once a seed of such a phase has been begun, every loader of
\* all_dataloaders agrees in these five with the loader that "instantiate
\* dataloaders" built at its place.
InitialLoaders == FlattenDataloaders(tasks, dataloaders).loaders

SameVariant(a, b) ==
    /\ a.cls = b.cls
    /\ a.cache_dir = b.cache_dir
    /\ a.use_construct = b.use_construct
    /\ a.predict_DE = b.predict_DE
    /\ a.return_specified_cells = b.return_specified_cells

C21_ReinstantiationKeepsVariant ==
    (num_models_to_train > 1 /\ handled # << >>) =>
        /\ Len(all_dataloaders) = Len(InitialLoaders)
        /\ \A i \in 1..Len(all_dataloaders) :
              SameVariant(all_dataloaders[i], InitialLoaders[i])

\* -------------------------------------------------------------------- C22
\* C22: for every model name, pretrain task list, optional name suffix and
\* number of seeds, the directory from which the finetuning phase reads the
\* pretrained checkpoint is exactly the directory into which the pretraining
\* phase wrote its checkpoints.  The pretraining phase writes under one model
\* name only, the name the finetuning phase will look up; when the finetuning
\* phase of a run on an empty tree is about to list that directory, it is the
\* one directory there is and it holds a checkpoint; and the checkpoint the
\* finetuning phase has loaded is a file of the directory of the pretraining
\* phase's model.
ReadDirectory == PretrainedModelName(args, pretrain_tasks)

C22_FinetuneReadsWherePretrainWrote ==
    /\ []((PhaseIsPretraining /\ pc \in SeedInHandPcs) => name = ReadDirectory)
    /\ []((finetune /\ pc = "load_pretrained" /\ workload = "single") =>
             /\ DOMAIN saved_models = { ReadDirectory }
             /\ saved_models[ReadDirectory].files # {})
    /\ []((finetune /\ pretrained_checkpoint # NoCheckpoint) =>
             /\ pretrained_checkpoint.model = NameOfPretrainingPhase
             /\ pretrained_checkpoint.path
                   \in Entry(saved_models, NameOfPretrainingPhase).files)
    /\ [][ (PhaseIsPretraining /\ pc \in SeedInHandPcs) =>
              \A n \in DOMAIN saved_models' :
                 saved_models'[n] # Entry(saved_models, n) => n = ReadDirectory ]_vars

\* the finetuning phase of a model other than the default, run with a name
\* suffix and two seeds, has loaded the checkpoint of its pretraining phase
C22_Witness ==
    /\ finetune
    /\ args.model_name # <<"M", "T", "L", "u", "c", "i", "f", "e", "r">>
    /\ args.optional_name_suffix # None
    /\ args.num_random_seeds = 2
    /\ pretrained_checkpoint # NoCheckpoint
    /\ startswith(pretrained_checkpoint.model, args.model_name)
    /\ pc = "fit"
====
